---- MODULE Spec2Model ----
(***************************************************************************)
(* Identity consolidation and account merge of kuip/nomen, as the          *)
(* PostgreSQL migrations define it:                                        *)
(*   unnamed/part_000                      tables, triggers, first version *)
(*   migrations/003_fix_sync_trigger.sql   sync_identity_to_profile (the   *)
(*                                         last definition, lines 374-513) *)
(*                                         and set_preferred_attribute     *)
(*   migrations/006_account_merge_support.sql  pending_merges and the      *)
(*                                         token-mediated merge            *)
(* Every RPC and every write of auth.identities is a transaction of one    *)
(* connection, under READ COMMITTED, and takes one step per SQL statement. *)
(* The state variables hold the committed rows.  A transaction keeps the   *)
(* rows it has written in tx.w and the keys of the rows it has deleted in  *)
(* tx.del: its own statements read them over the committed rows, nobody    *)
(* else does, and they are locked until it commits or is rolled back.      *)
(* An UPDATE or DELETE whose WHERE or SET reads a table takes two steps:   *)
(* the first reads the rows and the subquery values on the statement's     *)
(* snapshot (plan), the second runs once no other transaction holds a lock *)
(* the statement needs, and writes the planned rows that still match, as   *)
(* they are then.  A statement that names its row by key takes one step,   *)
(* enabled when the row is free.  A statement waits for row locks, for the *)
(* key-share locks of foreign-key checks, and for the entries another open *)
(* transaction has in users_pkey, idx_profile_attributes_identity_key and  *)
(* idx_profile_attributes_preferred; a constraint it violates raises, and  *)
(* the transaction is rolled back.  The AFTER ROW triggers of a statement  *)
(* on auth.identities run after it, one row after the other, each          *)
(* statement of the trigger function a step of its own.                    *)
(* The specifications differ in the number of connections, the calls they  *)
(* admit and the state they start from.  Columns updated_at are left out:  *)
(* no statement reads them.  auth.identities.user_id is not constrained in *)
(* these files, and no constraint on it is modelled.                       *)
(***************************************************************************)
EXTENDS Integers, Sequences, FiniteSets, TLC

\* ------------------------------------------------------------- constants
TTL == 10
TickStep == TTL

NoId == 0
SqlNull == "<NULL>"

AttributeKeys == {"display_name", "primary_email", "username", "avatar_url"}

\* the order in which the trigger function writes the keys
KeyOrder == <<"display_name", "primary_email", "username", "avatar_url">>

ClaimKeys == {"full_name", "name", "display_name", "email",
              "preferred_username", "user_name", "login",
              "avatar_url", "picture"}

Providers == {"google"}

\* identity_data ->> k is NULL for a key the provider did not send
Claims(f) == [k \in ClaimKeys |-> IF k \in DOMAIN f THEN f[k] ELSE SqlNull]

InputClaims ==
    { Claims([email |-> "a@x.com", name |-> "Ann"]),
      Claims([email |-> "a@work.com"]) }

\* identity_data as providers send it: claims that are missing, empty or
\* blank, and a higher-priority claim next to a lower-priority one
ExtractionClaims ==
    InputClaims \cup
    { Claims([email |-> "a@x.com", full_name |-> "", name |-> "Ann"]),
      Claims([email |-> "", name |-> "  "]),
      Claims([email |-> "a@work.com", full_name |-> "Ann B", name |-> "Ann",
              login |-> "ann", picture |-> "p.png"]),
      Claims([email |-> "a@x.com", preferred_username |-> "",
              user_name |-> "annb", avatar_url |-> "", picture |-> "p.png"]) }

\* identity_data with all four keys
KeyClaims ==
    { Claims([email |-> "a@x.com", name |-> "Ann", login |-> "ann",
              picture |-> "p.png"]),
      Claims([email |-> "a@work.com", name |-> "Ann B", login |-> "annb",
              picture |-> "q.png"]) }

VARIABLES
    authUsers,        \* auth.users: ids of the principals that exist
    users,            \* public.users: id -> profile_id (NoId is NULL)
    profiles,         \* public.profiles: id -> row
    identities,       \* auth.identities: id -> row
    attrs,            \* public.profile_attributes: id -> row
    pending_merges,   \* public.pending_merges: token -> row
    nextId,           \* the ids gen_random_uuid() hands out next, per table
    now,              \* the clock, in minutes
    reauths,          \* how many times an identity's claims were refreshed
    result,           \* the last call that ended and what it returned
    sessions          \* the connections and the transaction each has open

vars == <<authUsers, users, profiles, identities, attrs, pending_merges,
          nextId, now, reauths, result, sessions>>

\* ------------------------------------------------------------ SQL helpers
COALESCE(s) ==
    IF \E i \in 1..Len(s) : s[i] # SqlNull
    THEN s[CHOOSE i \in 1..Len(s) :
               s[i] # SqlNull /\ \A j \in 1..(i - 1) : s[j] = SqlNull]
    ELSE SqlNull

Drop(f, S) == [x \in DOMAIN f \ S |-> f[x]]

Restrict(f, S) == [x \in DOMAIN f \cap S |-> f[x]]

RowsOf(at, pid, key) ==
    {a \in DOMAIN at : at[a].profile_id = pid /\ at[a].attribute_key = key}

PreferredRows(at, pid, key) ==
    {a \in RowsOf(at, pid, key) : at[a].is_preferred}

\* the committed tables, as one value
DB == [authUsers |-> authUsers, users |-> users, profiles |-> profiles,
       identities |-> identities, attrs |-> attrs,
       pending_merges |-> pending_merges, nextId |-> nextId]

\* ---------------------------------------------------------------- bounds
MaxUsers == 2          \* sign-ups in a run of Spec
MaxIdentities == 2     \* identities linked in a run of Spec
MaxTokens == 1         \* merge requests created in a run of Spec
MaxTime == 10          \* minutes a run covers
RaceSessions == 2      \* connections of a concurrent run
RaceTokens == 3        \* merge requests created in a run of SpecCreateRace
SyncUsers == 2         \* principals in a run of SpecSyncRace
SyncIdentities == 2    \* identities linked in a run of SpecSyncRace
SyncReauths == 2       \* claims refreshes in a run of SpecSyncRace
MergeRaceUsers == 2    \* accounts in a run of SpecMergeRace
TokenRaceUsers == 3    \* accounts in a run of SpecTokenRace
ChainUsers == 3        \* accounts in a run of SpecChain
ChainTokens == 2       \* merge requests created in a run of SpecChain
ClaimsUsers == 1       \* sign-ups in a run of SpecClaims
ClaimsIdentities == 2  \* identities linked in a run of SpecClaims
ClaimsReauths == 1     \* claims refreshes in a run of SpecClaims
TieUsers == 2          \* sign-ups in a run of SpecTie
TieIdentities == 3     \* identities linked in a run of SpecTie
TieReauths == 1        \* claims refreshes in a run of SpecTie
TieTokens == 1         \* merge requests created in a run of SpecTie
KeysUsers == 2         \* accounts in a run of SpecKeys
HandshakeUsers == 2    \* accounts in a run of SpecHandshake
HandshakeTokens == 2   \* merge requests created in a run of SpecHandshake
RefreshUsers == 1      \* sign-ups in a run of SpecRefresh
RefreshIdentities == 2 \* identities linked in a run of SpecRefresh
RefreshReauths == 1    \* claims refreshes in a run of SpecRefresh
AllIdentities == 3     \* identities linked, or linked and refreshed, in SpecAllRace
\* ------------------------------------------- sync_identity_to_profile
ExtractClaims(data) ==
    [display_name  |-> COALESCE(<<data["full_name"], data["name"],
                                  data["display_name"]>>),
     primary_email |-> data["email"],
     username      |-> COALESCE(<<data["preferred_username"],
                                  data["user_name"], data["login"]>>),
     avatar_url    |-> COALESCE(<<data["avatar_url"], data["picture"]>>)]

\* mutant: DO UPDATE also takes is_preferred from the new row, FALSE
UpsertAttributeResetPreferred(db, pid, new, key, val, t) ==
    IF val = SqlNull \/ val = "" THEN db
    ELSE LET hit == {a \in DOMAIN db.attrs :
                        /\ db.attrs[a].identity_id = new.id
                        /\ db.attrs[a].attribute_key = key}
         IN IF hit # {}
            THEN [db EXCEPT !.attrs =
                    [a \in DOMAIN db.attrs |->
                        IF a \in hit
                        THEN [db.attrs[a] EXCEPT !.attribute_value = val,
                                                 !.is_preferred = FALSE]
                        ELSE db.attrs[a]]]
            ELSE [db EXCEPT
                    !.attrs = db.attrs @@ (db.nextId.attr :>
                        [profile_id      |-> pid,
                         identity_id     |-> new.id,
                         attribute_key   |-> key,
                         attribute_value |-> val,
                         source_provider |-> new.provider,
                         is_preferred    |-> FALSE,
                         created_at      |-> t]),
                    !.nextId.attr = db.nextId.attr + 1]

\* mutant: a plain INSERT, without ON CONFLICT ... DO UPDATE
UpsertAttributeAlwaysInsert(db, pid, new, key, val, t) ==
    IF val = SqlNull \/ val = "" THEN db
    ELSE [db EXCEPT
            !.attrs = db.attrs @@ (db.nextId.attr :>
                [profile_id      |-> pid,
                 identity_id     |-> new.id,
                 attribute_key   |-> key,
                 attribute_value |-> val,
                 source_provider |-> new.provider,
                 is_preferred    |-> FALSE,
                 created_at      |-> t]),
            !.nextId.attr = db.nextId.attr + 1]

\* INSERT ... ON CONFLICT (identity_id, attribute_key) DO UPDATE
UpsertAttribute(db, pid, new, key, val, t) ==
    IF val = SqlNull \/ val = "" THEN db
    ELSE LET hit == {a \in DOMAIN db.attrs :
                        /\ db.attrs[a].identity_id = new.id
                        /\ db.attrs[a].attribute_key = key}
         IN IF hit # {}
            THEN [db EXCEPT !.attrs =
                    [a \in DOMAIN db.attrs |->
                        IF a \in hit
                        THEN [db.attrs[a] EXCEPT !.attribute_value = val]
                        ELSE db.attrs[a]]]
            ELSE [db EXCEPT
                    !.attrs = db.attrs @@ (db.nextId.attr :>
                        [profile_id      |-> pid,
                         identity_id     |-> new.id,
                         attribute_key   |-> key,
                         attribute_value |-> val,
                         source_provider |-> new.provider,
                         is_preferred    |-> FALSE,
                         created_at      |-> t]),
                    !.nextId.attr = db.nextId.attr + 1]

\* the rows SELECT DISTINCT ON (attribute_key) ... ORDER BY attribute_key,
\* created_at may return for one key: any row of the earliest created_at
BootstrapCandidates(at, pid, key) ==
    {a \in RowsOf(at, pid, key) :
        \A b \in RowsOf(at, pid, key) : at[a].created_at <= at[b].created_at}

BootstrapKeys(at, pid) ==
    {k \in AttributeKeys :
        RowsOf(at, pid, k) # {} /\ PreferredRows(at, pid, k) = {}}

\* the sets of rows the bootstrap UPDATE may mark: one per key that has rows
\* and no preferred row
BootstrapWinners(at, pid) ==
    LET all == UNION {BootstrapCandidates(at, pid, k) :
                         k \in BootstrapKeys(at, pid)}
    IN {W \in SUBSET all :
           \A k \in BootstrapKeys(at, pid) :
               Cardinality(W \cap BootstrapCandidates(at, pid, k)) = 1}

PreferenceBootstrap(at, W) ==
    [a \in DOMAIN at |->
        IF a \in W THEN [at[a] EXCEPT !.is_preferred = TRUE] ELSE at[a]]

\* (SELECT attribute_value ... AND is_preferred = TRUE LIMIT 1)
PreferredValue(at, pid, key) ==
    IF PreferredRows(at, pid, key) = {} THEN SqlNull
    ELSE at[CHOOSE a \in PreferredRows(at, pid, key) : TRUE].attribute_value

\* the two subqueries of the aggregate UPDATE
AggregateValues(at, pid) ==
    [display_name  |-> PreferredValue(at, pid, "display_name"),
     primary_email |-> PreferredValue(at, pid, "primary_email")]

\* UPDATE public.profiles SET display_name = COALESCE(<subquery>,
\* display_name), primary_email = COALESCE(<subquery>, primary_email)
\* WHERE id = v_profile_id: agg is what the subqueries read, the row is
\* taken as it is when the statement writes
WriteAggregate(ps, pid, agg) ==
    IF pid \notin DOMAIN ps THEN ps
    ELSE [ps EXCEPT
            ![pid].display_name = COALESCE(<<agg.display_name, @>>),
            ![pid].primary_email = COALESCE(<<agg.primary_email, @>>)]

\* INSERT INTO public.users (id) VALUES (NEW.user_id)
EnsureUser(db, uid) ==
    IF uid \in DOMAIN db.users THEN db
    ELSE [db EXCEPT !.users = db.users @@ (uid :> NoId)]

\* INSERT INTO public.profiles (display_name, primary_email) VALUES (..)
\* RETURNING id INTO v_profile_id
InsertProfile(db, new) ==
    LET c == ExtractClaims(new.identity_data)
    IN [db EXCEPT
          !.profiles = db.profiles @@ (db.nextId.profile :>
              [display_name    |-> c.display_name,
               primary_email   |-> c.primary_email,
               merged_user_ids |-> <<>>]),
          !.nextId.profile = db.nextId.profile + 1]

\* UPDATE public.users SET profile_id = v_profile_id WHERE id = NEW.user_id
LinkProfile(db, uid, pid) ==
    IF uid \in DOMAIN db.users THEN [db EXCEPT !.users[uid] = pid] ELSE db

\* the keys whose claim the function writes, in the order of its INSERTs
\* (IF v_.. IS NOT NULL AND v_.. != ''), from the n-th on
RECURSIVE KeysFrom(_, _)
KeysFrom(data, n) ==
    IF n > Len(KeyOrder) THEN <<>>
    ELSE IF ExtractClaims(data)[KeyOrder[n]] \in {SqlNull, ""}
    THEN KeysFrom(data, n + 1)
    ELSE <<n>> \o KeysFrom(data, n + 1)

\* the trigger function run for the row new of auth.identities at time t
\* while no other transaction is open: the databases its statements may
\* leave.  The states that the specifications start from are built with it.
sync_identity_to_profile(db, new, t) ==
    LET d0  == EnsureUser(db, new.user_id)
        d1  == IF d0.users[new.user_id] # NoId THEN d0
               ELSE LinkProfile(InsertProfile(d0, new), new.user_id,
                                d0.nextId.profile)
        pid == d1.users[new.user_id]
        c   == ExtractClaims(new.identity_data)
        u1  == UpsertAttribute(d1, pid, new, "display_name", c.display_name, t)
        u2  == UpsertAttribute(u1, pid, new, "primary_email",
                               c.primary_email, t)
        u3  == UpsertAttribute(u2, pid, new, "username", c.username, t)
        d2  == UpsertAttribute(u3, pid, new, "avatar_url", c.avatar_url, t)
    IN { LET at == PreferenceBootstrap(d2.attrs, W)
         IN [d2 EXCEPT !.attrs = at,
                       !.profiles = WriteAggregate(d2.profiles, pid,
                                        AggregateValues(at, pid))]
         : W \in BootstrapWinners(d2.attrs, pid) }

\* ---------------------------------------------------------------- state
Commit(db) ==
    /\ authUsers' = db.authUsers
    /\ users' = db.users
    /\ profiles' = db.profiles
    /\ identities' = db.identities
    /\ attrs' = db.attrs
    /\ pending_merges' = db.pending_merges
    /\ nextId' = db.nextId

\* the tables right after the migrations ran
EmptyDB ==
    [authUsers |-> {}, users |-> <<>>, profiles |-> <<>>,
     identities |-> <<>>, attrs |-> <<>>, pending_merges |-> <<>>,
     nextId |-> [user |-> 1, identity |-> 1, profile |-> 1, attr |-> 1,
                 token |-> 1]]

StartsAs(db) ==
    /\ authUsers = db.authUsers
    /\ users = db.users
    /\ profiles = db.profiles
    /\ identities = db.identities
    /\ attrs = db.attrs
    /\ pending_merges = db.pending_merges
    /\ nextId = db.nextId

\* INSERT INTO public.users (id) VALUES (NEW.id), fired by an INSERT INTO
\* auth.users
handle_new_user(db, uid) ==
    [db EXCEPT !.users = db.users @@ (uid :> NoId)]

\* the database after the principal uid signed up
SignedUp(db, uid) ==
    handle_new_user([db EXCEPT !.authUsers = db.authUsers \cup {uid},
                               !.nextId.user = uid + 1], uid)

\* the databases an INSERT INTO auth.identities may leave while no other
\* transaction is open
LinkedDBs(db, u, p, data, t) ==
    LET new == [id |-> db.nextId.identity, user_id |-> u, provider |-> p,
                identity_data |-> data]
    IN sync_identity_to_profile(
           [db EXCEPT !.identities = db.identities @@ (new.id :>
                          [user_id |-> u, provider |-> p,
                           identity_data |-> data]),
                      !.nextId.identity = new.id + 1],
           new, t)

\* ------------------------------------------------------------ the errors
ErrUnauthorized == "Unauthorized"
ErrNotAuthenticated == "Not authenticated"
ErrInvalidToken == "Invalid or expired merge token"
ErrSameUser == "same_user"
ErrSelfMerge == "Cannot merge account with itself. This provider is already linked to your account."
ErrMergeSelf == "Cannot merge user with itself"
ErrTargetNoProfile == "Target user has no profile"
ErrSourceNoProfile == "Source user has no profile"
ErrSameProfile == "Users already share the same profile"
ErrForeignKey == "violates foreign key constraint"
ErrDeadlock == "deadlock detected"
ErrUsersPkey == "duplicate key value violates unique constraint users_pkey"
ErrPreferredIndex == "duplicate key value violates unique constraint idx_profile_attributes_preferred"

Failure(e) == [success |-> FALSE, error |-> e]

Success == [success |-> TRUE, error |-> SqlNull]

\* ------------------------------------------------ set_preferred_attribute
\* mutant: the ownership check accepts every caller
OwnsProfileAnyone(us, caller, pid) == pid # NoId

\* EXISTS (SELECT 1 FROM public.users WHERE id = auth.uid() AND
\* profile_id = v_profile_id)
OwnsProfile(us, caller, pid) ==
    caller \in DOMAIN us /\ pid # NoId /\ us[caller] = pid

\* UPDATE .. SET is_preferred = FALSE WHERE profile_id = v_profile_id AND
\* attribute_key = v_attribute_key
UnsetPreferred(at, pid, key) ==
    [a \in DOMAIN at |->
        IF a \in RowsOf(at, pid, key)
        THEN [at[a] EXCEPT !.is_preferred = FALSE] ELSE at[a]]

\* mutant: the second UPDATE marks no row
SetPreferredNone(at, attr_id) == at

\* UPDATE .. SET is_preferred = TRUE WHERE id = attr_id
SetPreferred(at, attr_id) ==
    IF attr_id \in DOMAIN at
    THEN [at EXCEPT ![attr_id].is_preferred = TRUE] ELSE at

\* mutant: the value is written through whatever the key
WriteThroughAnyKey(ps, pid, key, val) ==
    IF pid \notin DOMAIN ps THEN ps
    ELSE [ps EXCEPT ![pid].display_name = val]

\* mutant: the preference change does not reach the profile
WriteThroughNone(ps, pid, key, val) == ps

\* UPDATE public.profiles SET display_name = CASE WHEN v_attribute_key =
\* 'display_name' THEN (SELECT attribute_value ..) ELSE display_name END, ..
\* WHERE id = v_profile_id, with the variables the function read earlier
WriteThrough(ps, pid, key, val) ==
    IF pid \notin DOMAIN ps THEN ps
    ELSE [ps EXCEPT
            ![pid].display_name =
                IF key = "display_name" THEN val ELSE @,
            ![pid].primary_email =
                IF key = "primary_email" THEN val ELSE @]

\* ------------------------------------------------------- merge handshake
\* mutant: a request is found whatever its expires_at
LiveRequesterIgnoringExpiry(pm, token, t) ==
    IF token \in DOMAIN pm THEN pm[token].requester_id ELSE NoId

\* SELECT requester_id ... WHERE token = p_token AND expires_at > NOW()
LiveRequester(pm, token, t) ==
    IF token \in DOMAIN pm /\ pm[token].expires_at > t
    THEN pm[token].requester_id ELSE NoId

\* DELETE FROM pending_merges WHERE requester_id = v_user_id
SupersedeRequests(pm, caller) ==
    Drop(pm, {k \in DOMAIN pm : pm[k].requester_id = caller})

\* INSERT INTO public.pending_merges (requester_id) VALUES (v_user_id)
\* RETURNING token: created_at and expires_at take their defaults
InsertRequest(db, caller, t) ==
    [db EXCEPT
        !.pending_merges = db.pending_merges @@ (db.nextId.token :>
            [requester_id |-> caller, created_at |-> t,
             expires_at |-> t + TTL]),
        !.nextId.token = db.nextId.token + 1]

\* FROM public.users u LEFT JOIN public.profiles p ON p.id = u.profile_id
RequesterProfile(us, ps, uid) ==
    IF uid \in DOMAIN us /\ us[uid] \in DOMAIN ps
    THEN [display_name |-> ps[us[uid]].display_name,
          primary_email |-> ps[us[uid]].primary_email]
    ELSE [display_name |-> SqlNull, primary_email |-> SqlNull]

\* json_build_object('success', true, 'requester_id', v_requester_id,
\* 'requester_display_name', v_display_name, 'requester_email', v_email)
RequesterInfo(requester, info) ==
    [success |-> TRUE, error |-> SqlNull,
     requester_id |-> requester,
     requester_display_name |-> info.display_name,
     requester_email |-> info.primary_email]

\* mutant: only the requester's request is deleted, and only while live
CancelRequestOwnLiveOnly(pm, token, caller, t) ==
    IF LiveRequester(pm, token, t) = caller THEN Drop(pm, {token}) ELSE pm

\* DELETE FROM public.pending_merges WHERE token = p_token
CancelRequest(pm, token, caller, t) == Drop(pm, {token})


\* mutant: the identities stay with the source
MoveIdentitiesNone(db, target, source) == db

\* 1. UPDATE auth.identities SET user_id = target WHERE user_id = source
MoveIdentities(db, target, source) ==
    [db EXCEPT !.identities =
        [i \in DOMAIN db.identities |->
            IF db.identities[i].user_id = source
            THEN [db.identities[i] EXCEPT !.user_id = target]
            ELSE db.identities[i]]]

\* mutant: the rows stay under the source profile
MoveAttributesNone(at, target_pid, source_pid) == at

\* 2. UPDATE profile_attributes SET profile_id = target, is_preferred = FALSE
MoveAttributes(at, target_pid, source_pid) ==
    [a \in DOMAIN at |->
        IF at[a].profile_id = source_pid
        THEN [at[a] EXCEPT !.profile_id = target_pid, !.is_preferred = FALSE]
        ELSE at[a]]

\* 3. array_append(COALESCE(merged_user_ids, '{}'), source)
AppendMerged(ps, target_pid, source) ==
    [ps EXCEPT ![target_pid].merged_user_ids = Append(@, source)]

\* 4. DELETE FROM profiles: profile_attributes.profile_id ON DELETE CASCADE,
\* users.profile_id ON DELETE SET NULL
DeleteProfile(db, pid) ==
    [db EXCEPT
        !.profiles = Drop(db.profiles, {pid}),
        !.attrs = Drop(db.attrs, {a \in DOMAIN db.attrs :
                                     db.attrs[a].profile_id = pid}),
        !.users = [u \in DOMAIN db.users |->
                      IF db.users[u] = pid THEN NoId ELSE db.users[u]]]

\* mutant: the source's public.users row is not deleted
DeleteUserKeep(db, uid) == db

\* 5. DELETE FROM public.users
DeleteUser(db, uid) == [db EXCEPT !.users = Drop(db.users, {uid})]

\* mutant: the requests of the deleted principal are kept
DeleteAuthUserKeepRequests(db, uid) ==
    [db EXCEPT
        !.authUsers = db.authUsers \ {uid},
        !.users = Drop(db.users, {uid})]

\* 6. DELETE FROM auth.users: public.users.id and pending_merges.requester_id
\* are ON DELETE CASCADE
DeleteAuthUser(db, uid) ==
    [db EXCEPT
        !.authUsers = db.authUsers \ {uid},
        !.users = Drop(db.users, {uid}),
        !.pending_merges = Drop(db.pending_merges,
            {k \in DOMAIN db.pending_merges :
                db.pending_merges[k].requester_id = uid})]

ProfileIdOf(us, uid) == IF uid \in DOMAIN us THEN us[uid] ELSE NoId

\* mutant: the request is left in the table
ConsumeTokenNot(pm, token) == pm

\* DELETE FROM pending_merges WHERE token = p_token
ConsumeToken(pm, token) == Drop(pm, {token})

\* mutant: the same-user check is missing
IsSelfMergeNever(requester, caller) == FALSE

\* IF v_requester_id = v_current_user_id
IsSelfMerge(requester, caller) == requester = caller

\* mutant: the caller survives and the requester is absorbed
MergeRolesSwapped(requester, caller) ==
    [target |-> caller, source |-> requester]

\* merge_profiles_internal(v_requester_id, v_current_user_id): the requester
\* is the target, the caller the source
MergeRoles(requester, caller) == [target |-> requester, source |-> caller]


\* ------------------------------------------------------- the connections
Tables == {"users", "profiles", "identities", "attrs", "pending_merges"}

\* what a transaction holds: the rows it has written (w), the rows it has
\* deleted (del), and the rows it has locked without writing them (lk)
NoTx == [w   |-> [t \in Tables |-> <<>>],
         del |-> [t \in Tables \cup {"authUsers"} |-> {}],
         lk  |-> [t \in Tables \cup {"authUsers"} |-> {}]]

NoIdentity == [id |-> NoId, user_id |-> NoId, provider |-> SqlNull,
               identity_data |-> Claims(<<>>)]

NoAggregate == [display_name |-> SqlNull, primary_email |-> SqlNull]

\* what a statement has read on its snapshot before it writes: the rows its
\* WHERE found and the values of its subqueries
NoPlan == [rows |-> {}, agg |-> NoAggregate]

\* a connection with no call in progress
Idle == [pc |-> "idle", op |-> "none", caller |-> NoId, token |-> NoId,
         at |-> 0, requester |-> NoId, target |-> NoId, source |-> NoId,
         tp |-> NoId, sp |-> NoId, moved |-> 0, merged |-> 0,
         attr |-> NoId, key |-> SqlNull, identity |-> NoId,
         new |-> NoIdentity, pid |-> NoId, upserts |-> 0, queue |-> {},
         cont |-> "idle", plan |-> NoPlan, ret |-> Failure(SqlNull),
         tx |-> NoTx, part |-> NoTx]

Connections == DOMAIN sessions

\* what a call hands back, with the arguments it was made with
Answer(m, ret) ==
    [op |-> m.op, caller |-> m.caller, token |-> m.token, attr |-> m.attr,
     target |-> m.target, source |-> m.source, identity |-> m.identity,
     ret |-> ret]

NoAnswer == Answer(Idle, Failure(SqlNull))

\* what a statement of the transaction x reads
TxView(db, x) ==
    [authUsers      |-> db.authUsers \ x.del.authUsers,
     users          |-> x.w.users @@ Drop(db.users, x.del.users),
     profiles       |-> x.w.profiles @@ Drop(db.profiles, x.del.profiles),
     identities     |-> x.w.identities
                            @@ Drop(db.identities, x.del.identities),
     attrs          |-> x.w.attrs @@ Drop(db.attrs, x.del.attrs),
     pending_merges |-> x.w.pending_merges
                            @@ Drop(db.pending_merges, x.del.pending_merges),
     nextId         |-> db.nextId]

View(s) == TxView(DB, sessions[s].tx)

\* the rows of a table a statement inserted or changed
Changed(after, before) ==
    [x \in {y \in DOMAIN after :
               y \notin DOMAIN before \/ after[y] # before[y]} |-> after[x]]

\* the rows of a table a statement locks: those it inserted or changed, and
\* the rows keys that an UPDATE wrote with the values they had
WrittenRows(after, before, keys) ==
    [x \in DOMAIN Changed(after, before) \cup (keys \cap DOMAIN after)
        |-> after[x]]

NoLocks == [users |-> {}, profiles |-> {}, identities |-> {}, attrs |-> {},
            pending_merges |-> {}, authUsers |-> {}]

Removed(after, before, t) ==
    IF t = "authUsers" THEN before.authUsers \ after.authUsers
    ELSE DOMAIN before[t] \ DOMAIN after[t]

\* the transaction x after a statement that turned the view before into
\* after and locked the rows holds without writing them
TxAfter(x, after, before, locks, holds) ==
    [w   |-> [t \in Tables |->
                 Drop(WrittenRows(after[t], before[t], locks[t]) @@ x.w[t],
                      Removed(after, before, t))],
     del |-> [t \in Tables \cup {"authUsers"} |->
                 x.del[t] \cup Removed(after, before, t)],
     lk  |-> [t \in Tables \cup {"authUsers"} |-> x.lk[t] \cup holds[t]]]

\* the rows of table t a statement writes, deletes or locks
Touched(after, before, t, locks, holds) ==
    (IF t = "authUsers" THEN {}
     ELSE DOMAIN WrittenRows(after[t], before[t], locks[t]))
    \cup Removed(after, before, t)
    \cup holds[t]

\* the rows of table t the transaction x has locked
Locked(x, t) ==
    (IF t = "authUsers" THEN {} ELSE DOMAIN x.w[t])
    \cup x.del[t] \cup x.lk[t]

\* what the other connections meet of the call m: the rows of its
\* transaction, and the rows that the statement it is running has passed
Held(m) ==
    IF m.part = NoTx THEN m.tx
    ELSE
    [w   |-> [t \in Tables |->
                 Drop(m.part.w[t] @@ m.tx.w[t], m.part.del[t])],
     del |-> [t \in Tables \cup {"authUsers"} |->
                 m.tx.del[t] \cup m.part.del[t]],
     lk  |-> [t \in Tables \cup {"authUsers"} |->
                 m.tx.lk[t] \cup m.part.lk[t]]]

\* the profiles that the statement leaving after makes rows refer to:
\* profile_attributes.profile_id and users.profile_id REFERENCES profiles(id)
NewlyReferred(after, before) ==
    {after.attrs[a].profile_id :
        a \in {b \in DOMAIN after.attrs :
                  b \notin DOMAIN before.attrs
                  \/ before.attrs[b].profile_id # after.attrs[b].profile_id}}
    \cup ({after.users[u] :
             u \in {v \in DOMAIN after.users :
                       v \notin DOMAIN before.users
                       \/ before.users[v] # after.users[v]}}
          \ {NoId})

\* the principals that the statement leaving after makes rows refer to:
\* users.id and pending_merges.requester_id REFERENCES auth.users(id)
NewlyReferredPrincipals(after, before) ==
    (DOMAIN after.users \ DOMAIN before.users)
    \cup {after.pending_merges[k].requester_id :
             k \in DOMAIN after.pending_merges \ DOMAIN before.pending_merges}

\* the profiles and principals that rows written by the open transaction x
\* refer to and the committed rows did not: the foreign-key checks of x hold
\* a key-share lock on them
ReferredProfiles(x) == NewlyReferred(TxView(DB, x), DB)

ReferredPrincipals(x) == NewlyReferredPrincipals(TxView(DB, x), DB)

SamePair(r, q) ==
    r.profile_id = q.profile_id /\ r.attribute_key = q.attribute_key

\* the rows that the statement leaving after enters into
\* idx_profile_attributes_preferred
NewEntries(after, before) ==
    {a \in DOMAIN after.attrs :
        /\ after.attrs[a].is_preferred
        /\ \/ a \notin DOMAIN before.attrs
           \/ ~before.attrs[a].is_preferred
           \/ ~SamePair(before.attrs[a], after.attrs[a])}

\* an entry of the statement collides with an entry that the open
\* transaction x has written or is about to remove (a row that x has only
\* locked keeps its entry, and the statement is refused at once)
IndexWaitsFor(after, before, x) ==
    \E a \in NewEntries(after, before) :
        \E b \in (DOMAIN x.w.attrs \cup x.del.attrs) \ {a} :
            \/ /\ b \in DOMAIN x.w.attrs
               /\ x.w.attrs[b].is_preferred
               /\ SamePair(x.w.attrs[b], after.attrs[a])
            \/ /\ b \in DOMAIN attrs
               /\ attrs[b].is_preferred
               /\ SamePair(attrs[b], after.attrs[a])

\* mutant: the index refuses nothing
IndexRefusesNever(after, before) == FALSE

\* an entry of the statement collides with an entry it can see
IndexRefuses(after, before) ==
    \E a \in NewEntries(after, before) :
        \E b \in DOMAIN after.attrs \ {a} :
            after.attrs[b].is_preferred
            /\ SamePair(after.attrs[b], after.attrs[a])

\* a row the statement inserts has the (identity_id, attribute_key) of a row
\* that the open transaction x has inserted: the INSERT .. ON CONFLICT waits
\* for the entry in idx_profile_attributes_identity_key
PairWaitsFor(after, before, x) ==
    \E a \in DOMAIN after.attrs \ DOMAIN before.attrs :
        \E b \in DOMAIN x.w.attrs \ DOMAIN attrs :
            /\ x.w.attrs[b].identity_id = after.attrs[a].identity_id
            /\ x.w.attrs[b].attribute_key = after.attrs[a].attribute_key

\* the statement of connection s that turns its view into after has to wait
\* for the transaction of connection t
WaitsFor(s, after, locks, holds, t) ==
    LET before == View(s)
        x == Held(sessions[t])
    IN \/ \E tbl \in Tables \cup {"authUsers"} :
             Touched(after, before, tbl, locks, holds)
                 \cap Locked(x, tbl) # {}
       \/ Removed(after, before, "profiles") \cap ReferredProfiles(x) # {}
       \/ NewlyReferred(after, before) \cap x.del.profiles # {}
       \/ Removed(after, before, "authUsers") \cap ReferredPrincipals(x) # {}
       \/ NewlyReferredPrincipals(after, before) \cap x.del.authUsers # {}
       \/ IndexWaitsFor(after, before, x)
       \/ PairWaitsFor(after, before, x)

CanRun(s, after, locks, holds) ==
    \A t \in Connections \ {s} :
        IF sessions[t].tx = NoTx /\ sessions[t].part = NoTx THEN TRUE
        ELSE ~WaitsFor(s, after, locks, holds, t)

\* the constraint that refuses the statement, if one does
Violation(after, before) ==
    IF ~(NewlyReferred(after, before) \subseteq DOMAIN after.profiles)
    THEN ErrForeignKey
    ELSE IF ~(NewlyReferredPrincipals(after, before)
                  \subseteq after.authUsers)
    THEN ErrForeignKey
    ELSE IF IndexRefuses(after, before) THEN ErrPreferredIndex
    ELSE SqlNull

\* reauths counts the refreshes of an identity's claims that were begun
Frame(s, m) ==
    /\ reauths' = IF sessions[s].pc = "idle" /\ m.op = "identity_update"
                  THEN reauths + 1 ELSE reauths
    /\ UNCHANGED <<authUsers, users, profiles, identities, attrs,
                   pending_merges, now>>

\* a statement of the call m on connection s raises e: the transaction is
\* rolled back, and the ids it has drawn are spent
Abort(s, m, e) ==
    /\ result' = Answer(m, Failure(e))
    /\ sessions' = [sessions EXCEPT ![s] = Idle]
    /\ UNCHANGED nextId
    /\ Frame(s, m)

\* connection s goes on as then, having written nothing
Goto(s, then) ==
    /\ sessions' = [sessions EXCEPT ![s] = then]
    /\ UNCHANGED <<nextId, result>>
    /\ Frame(s, then)

\* a statement of connection s turns its view into after, once it has not
\* to wait for any of its rows, and the connection goes on as then; the
\* rows it passed while it waited stay locked
Run(s, after, locks, holds, then) ==
    /\ CanRun(s, after, locks, holds)
    /\ IF Violation(after, View(s)) # SqlNull
       THEN Abort(s, then, Violation(after, View(s)))
       ELSE /\ sessions' = [sessions EXCEPT ![s] =
                   [then EXCEPT
                       !.tx = TxAfter(sessions[s].tx, after, View(s), locks,
                                  [t \in Tables \cup {"authUsers"} |->
                                      holds[t]
                                      \cup Locked(sessions[s].part, t)]),
                       !.part = NoTx]]
            /\ nextId' = after.nextId
            /\ UNCHANGED result
            /\ Frame(s, then)

\* the function returns, and the transaction commits
Return(s) ==
    /\ sessions[s].pc = "returning"
    /\ Commit(View(s))
    /\ result' = Answer(sessions[s], sessions[s].ret)
    /\ sessions' = [sessions EXCEPT ![s] = Idle]
    /\ UNCHANGED <<now, reauths>>

\* RETURN json_build_object(..) with ret
Returning(m, ret) == [m EXCEPT !.pc = "returning", !.ret = ret]

\* ------------------------------------------------- the writing statements
\* the rows that the planned statement of m still finds when it writes
StillOwned(v, m) ==
    {i \in m.plan.rows \cap DOMAIN v.identities :
        v.identities[i].user_id = m.source}

StillUnder(v, m, pid) ==
    {a \in m.plan.rows \cap DOMAIN v.attrs : v.attrs[a].profile_id = pid}

StillOfKey(v, m) ==
    {a \in StillUnder(v, m, m.tp) : v.attrs[a].attribute_key = m.key}

\* the key of the next INSERT .. ON CONFLICT of the trigger run of m
UpsertKey(m) == KeyOrder[Head(KeysFrom(m.new.identity_data, m.upserts + 1))]

\* the rows of the identity new that its upsert of key updates in place
UpsertHits(at, new, key) ==
    {a \in DOMAIN at :
        at[a].identity_id = new.id /\ at[a].attribute_key = key}

\* the view that the writing statement at which connection s stands leaves
StatementAfter(s) ==
    LET v == View(s)
        m == sessions[s]
        pc == m.pc
    IN CASE pc = "found" ->
              [v EXCEPT !.pending_merges = ConsumeToken(@, m.token)]
         [] pc = "moving_identities" ->
              [v EXCEPT !.identities =
                  MoveIdentities(
                      [v EXCEPT !.identities =
                                    Restrict(v.identities, StillOwned(v, m))],
                      m.target, m.source).identities @@ v.identities]
         [] pc \in {"moving_attributes", "l_moving"} ->
              [v EXCEPT !.attrs =
                  MoveAttributes(Restrict(v.attrs, StillUnder(v, m, m.sp)),
                                 m.tp, m.sp) @@ v.attrs]
         [] pc \in {"attrs_moved", "l_pointed"} ->
              IF m.tp \in DOMAIN v.profiles
              THEN [v EXCEPT !.profiles = AppendMerged(@, m.tp, m.source)]
              ELSE v
         [] pc \in {"appended", "l_appended"} -> DeleteProfile(v, m.sp)
         [] pc = "profile_deleted" -> DeleteUser(v, m.source)
         [] pc = "user_deleted" -> DeleteAuthUser(v, m.source)
         [] pc = "l_moved" -> LinkProfile(v, m.source, m.tp)
         [] pc = "p_unsetting" ->
              [v EXCEPT !.attrs =
                  UnsetPreferred(Restrict(v.attrs, StillOfKey(v, m)),
                                 m.tp, m.key) @@ v.attrs]
         [] pc = "p_unset" -> [v EXCEPT !.attrs = SetPreferred(@, m.attr)]
         [] pc = "p_set" ->
              [v EXCEPT !.profiles =
                  WriteThrough(@, m.tp, m.key,
                      IF m.attr \in DOMAIN v.attrs
                      THEN v.attrs[m.attr].attribute_value ELSE SqlNull)]
         [] pc = "c_deleting" ->
              LET mine == Restrict(v.pending_merges, m.plan.rows)
              IN [v EXCEPT !.pending_merges =
                     Drop(@, DOMAIN mine
                                 \ DOMAIN SupersedeRequests(mine, m.caller))]
         [] pc = "c_deleted" -> InsertRequest(v, m.caller, m.at)
         [] pc = "no_user" -> EnsureUser(v, m.new.user_id)
         [] pc = "no_profile" -> InsertProfile(v, m.new)
         [] pc = "profile_made" -> LinkProfile(v, m.new.user_id, m.pid)
         [] pc = "has_profile" ->
              UpsertAttribute(v, m.pid, m.new, UpsertKey(m),
                  ExtractClaims(m.new.identity_data)[UpsertKey(m)], m.at)
         [] pc = "marking" ->
              [v EXCEPT !.attrs =
                  PreferenceBootstrap(v.attrs, StillUnder(v, m, m.pid))]
         [] pc = "aggregating" ->
              [v EXCEPT !.profiles = WriteAggregate(@, m.pid, m.plan.agg)]
         [] OTHER -> v

\* the rows that statement locks whether or not it changes them: an UPDATE
\* locks every row it writes, with the old values too
StatementLocks(s) ==
    LET v == View(s)
        m == sessions[s]
        pc == m.pc
    IN CASE pc = "moving_identities" ->
              [NoLocks EXCEPT !.identities = StillOwned(v, m)]
         [] pc \in {"moving_attributes", "l_moving"} ->
              [NoLocks EXCEPT !.attrs = StillUnder(v, m, m.sp)]
         [] pc \in {"attrs_moved", "l_pointed", "p_set"} ->
              [NoLocks EXCEPT !.profiles = {m.tp}]
         [] pc = "l_moved" -> [NoLocks EXCEPT !.users = {m.source}]
         [] pc = "p_unsetting" -> [NoLocks EXCEPT !.attrs = StillOfKey(v, m)]
         [] pc = "p_unset" -> [NoLocks EXCEPT !.attrs = {m.attr}]
         [] pc \in {"no_user", "profile_made"} ->
              [NoLocks EXCEPT !.users = {m.new.user_id}]
         [] pc = "has_profile" ->
              [NoLocks EXCEPT
                  !.attrs = UpsertHits(v.attrs, m.new, UpsertKey(m))]
         [] pc = "marking" ->
              [NoLocks EXCEPT !.attrs = StillUnder(v, m, m.pid)]
         [] pc = "aggregating" -> [NoLocks EXCEPT !.profiles = {m.pid}]
         [] OTHER -> NoLocks

\* the rows that statement found on its snapshot and passes over, because
\* a transaction that has committed since took them out of its WHERE
\* clause: it has locked them to look at them again, and the lock stays
StatementHolds(s) ==
    LET v == View(s)
        m == sessions[s]
        pc == m.pc
    IN CASE pc = "moving_identities" ->
              [NoLocks EXCEPT !.identities =
                  (m.plan.rows \cap DOMAIN v.identities) \ StillOwned(v, m)]
         [] pc \in {"moving_attributes", "l_moving"} ->
              [NoLocks EXCEPT !.attrs =
                  (m.plan.rows \cap DOMAIN v.attrs) \ StillUnder(v, m, m.sp)]
         [] pc = "p_unsetting" ->
              [NoLocks EXCEPT !.attrs =
                  (m.plan.rows \cap DOMAIN v.attrs) \ StillOfKey(v, m)]
         [] pc = "marking" ->
              [NoLocks EXCEPT !.attrs =
                  (m.plan.rows \cap DOMAIN v.attrs)
                      \ StillUnder(v, m, m.pid)]
         [] OTHER -> NoLocks

\* the writing statement at from runs, and the connection goes on as then
Statement(s, from, then) ==
    /\ sessions[s].pc = from
    /\ Run(s, StatementAfter(s), StatementLocks(s), StatementHolds(s), then)

\* the table whose rows the statement at pc finds by itself, one after the
\* other, when it is a statement that can write several rows; the rows of
\* the other tables are reached by the foreign-key actions of a row it has
\* deleted
Scanned(pc) ==
    CASE pc = "moving_identities" -> "identities"
      [] pc \in {"moving_attributes", "l_moving", "p_unsetting", "marking"} ->
           "attrs"
      [] pc = "c_deleting" -> "pending_merges"
      [] pc \in {"appended", "l_appended"} -> "profiles"
      [] pc = "user_deleted" -> "authUsers"
      [] OTHER -> "none"

\* the rows that the statement of connection s has to lock, by table
Wanted(s) ==
    LET v == View(s)
        after == StatementAfter(s)
        locks == StatementLocks(s)
        holds == StatementHolds(s)
    IN [t \in Tables \cup {"authUsers"} |->
           Touched(after, v, t, locks, holds)]

\* a statement that writes several rows goes through them one by one: it
\* locks and writes one more row that no transaction holds, and keeps it
\* while it goes on or waits for the next. The order is the one of the scan,
\* which SQL leaves open; a foreign-key action comes after the row that
\* fires it. The other connections meet the rows it has passed; the
\* statement ends in Run, which takes the rows that are left. The step is
\* taken apart from Run only where another call in progress can tell the
\* difference: its statement wants one of these rows, or holds one
StatementRow(s) ==
    LET m == sessions[s]
        v == View(s)
        after == StatementAfter(s)
        locks == StatementLocks(s)
        holds == StatementHolds(s)
        want == Wanted(s)
        mine == [t \in Tables \cup {"authUsers"} |-> Locked(Held(m), t)]
    IN /\ Scanned(m.pc) # "none"
       /\ Cardinality(UNION {{<<t, r>> : r \in want[t] \ mine[t]} :
                                t \in Tables \cup {"authUsers"}}) > 1
       /\ \E o \in Connections \ {s} :
             IF sessions[o].pc = "idle" THEN FALSE
             ELSE IF LET theirs == Wanted(o)
                     IN \E t \in Tables \cup {"authUsers"} :
                           want[t] \cap theirs[t] # {}
                  THEN TRUE
                  ELSE WaitsFor(s, after, locks, holds, o)
       /\ \E t \in Tables \cup {"authUsers"} :
            \E r \in want[t] \ mine[t] :
               LET one == IF t = "authUsers"
                          THEN [v EXCEPT !.authUsers = @ \ {r}]
                          ELSE IF r \in DOMAIN after[t]
                               THEN [v EXCEPT ![t] =
                                        [@ EXCEPT ![r] = after[t][r]]]
                               ELSE [v EXCEPT ![t] = Drop(@, {r})]
                   lk1 == [NoLocks EXCEPT ![t] = locks[t] \cap {r}]
                   hd1 == [NoLocks EXCEPT ![t] = holds[t] \cap {r}]
               IN /\ IF t = Scanned(m.pc) THEN TRUE
                     ELSE want[Scanned(m.pc)] \subseteq mine[Scanned(m.pc)]
                  /\ CanRun(s, one, lk1, hd1)
                  /\ IF Violation(one, v) # SqlNull
                     THEN Abort(s, m, Violation(one, v))
                     ELSE /\ sessions' = [sessions EXCEPT ![s].part =
                                 TxAfter(m.part, one, v, lk1, hd1)]
                          /\ UNCHANGED <<nextId, result>>
                          /\ Frame(s, m)

\* connection s cannot run its statement before the transaction of t ends
\* (a transaction that holds no row holds nothing up)
BlockedBy(s, t) ==
    /\ ~(sessions[t].tx = NoTx /\ sessions[t].part = NoTx)
    /\ WaitsFor(s, StatementAfter(s), StatementLocks(s), StatementHolds(s), t)

\* two transactions wait for each other: the deadlock detector of the one
\* whose deadlock_timeout ends first raises 'deadlock detected', and that
\* transaction is rolled back
Deadlock(s) ==
    /\ \E t \in Connections \ {s} : BlockedBy(s, t) /\ BlockedBy(t, s)
    /\ Abort(s, sessions[s], ErrDeadlock)

\* ------------------------------------- sync_identity_to_profile, stepwise
\* the row NEW of a trigger run
NewRow(db, i) ==
    [id |-> i, user_id |-> db.identities[i].user_id,
     provider |-> db.identities[i].provider,
     identity_data |-> db.identities[i].identity_data]

\* where a trigger run goes on once v_profile_id is set
WithProfile(m, pid) ==
    [m EXCEPT !.pid = pid,
              !.pc = IF KeysFrom(m.new.identity_data, 1) = <<>>
                     THEN "upserted" ELSE "has_profile"]

\* the trigger runs for one of the rows the statement wrote, in an order
\* the statement does not fix: SELECT EXISTS(SELECT 1 FROM public.users
\* WHERE id = NEW.user_id) INTO v_user_exists
SyncUserExists(s) ==
    LET v == View(s)
        m == sessions[s]
    IN /\ m.pc = "fired"
       /\ \E i \in m.queue :
             LET new == NewRow(v, i)
             IN Goto(s, [m EXCEPT
                    !.new = new, !.queue = @ \ {i}, !.upserts = 0,
                    !.pid = NoId, !.plan = NoPlan,
                    !.pc = IF new.user_id \in DOMAIN v.users
                           THEN "has_user" ELSE "no_user"])

\* IF NOT v_user_exists THEN INSERT INTO public.users (id): waits while
\* another transaction holds the entry of that id in users_pkey, and is
\* refused when the id is there
SyncUserInsert(s) ==
    LET v == View(s)
        m == sessions[s]
    IN /\ m.pc = "no_user"
       /\ IF m.new.user_id \in DOMAIN v.users
          THEN /\ CanRun(s, StatementAfter(s), StatementLocks(s), NoLocks)
               /\ Abort(s, m, ErrUsersPkey)
          ELSE Statement(s, "no_user", [m EXCEPT !.pc = "has_user"])

\* SELECT profile_id INTO v_profile_id FROM public.users WHERE id =
\* NEW.user_id
SyncProfileSelect(s) ==
    LET m == sessions[s]
        pid == ProfileIdOf(View(s).users, m.new.user_id)
    IN /\ m.pc = "has_user"
       /\ Goto(s, IF pid = NoId THEN [m EXCEPT !.pc = "no_profile"]
                  ELSE WithProfile(m, pid))

\* IF v_profile_id IS NULL THEN INSERT INTO public.profiles .. RETURNING id
SyncProfileInsert(s) ==
    Statement(s, "no_profile",
        [sessions[s] EXCEPT !.pc = "profile_made",
                            !.pid = View(s).nextId.profile])

\* UPDATE public.users SET profile_id = v_profile_id WHERE id = NEW.user_id
SyncProfileLink(s) ==
    Statement(s, "profile_made", WithProfile(sessions[s], sessions[s].pid))

\* the next of the INSERT .. ON CONFLICT (identity_id, attribute_key) DO
\* UPDATE, one per claim that is neither NULL nor ''
SyncUpsert(s) ==
    LET m == sessions[s]
        n == Head(KeysFrom(m.new.identity_data, m.upserts + 1))
    IN Statement(s, "has_profile",
           [m EXCEPT !.upserts = n,
                     !.pc = IF KeysFrom(m.new.identity_data, n + 1) = <<>>
                            THEN "upserted" ELSE "has_profile"])

\* UPDATE public.profile_attributes SET is_preferred = TRUE WHERE .. id IN
\* (SELECT DISTINCT ON (attribute_key) ..) begins: the subquery picks the
\* rows on the statement's snapshot
SyncBootstrap(s) ==
    LET m == sessions[s]
    IN /\ m.pc = "upserted"
       /\ \E W \in BootstrapWinners(View(s).attrs, m.pid) :
             Goto(s, [m EXCEPT !.pc = "marking", !.plan.rows = W])

\* the UPDATE writes the rows it picked that are still under the profile,
\* and enters them into idx_profile_attributes_preferred
SyncMark(s) ==
    Statement(s, "marking", [sessions[s] EXCEPT !.pc = "bootstrapped"])

\* UPDATE public.profiles SET display_name = COALESCE(..), primary_email =
\* COALESCE(..) WHERE id = v_profile_id begins: the subqueries read the
\* preferred rows on the statement's snapshot
SyncAggregateRead(s) ==
    LET m == sessions[s]
    IN /\ m.pc = "bootstrapped"
       /\ Goto(s, [m EXCEPT
              !.pc = "aggregating",
              !.plan.agg = AggregateValues(View(s).attrs, m.pid)])

\* the UPDATE gets the lock of the profile row and writes what the
\* subqueries read over the row as it is then; RETURN NEW
SyncAggregateUpdate(s) ==
    LET m == sessions[s]
    IN Statement(s, "aggregating",
           [m EXCEPT !.pc = IF m.queue = {} THEN m.cont ELSE "fired"])

\* ---------------------------------------------------- auth.users, clock
\* INSERT INTO auth.users, which fires on_auth_user_created: one statement
\* that no other transaction can wait for or hold up
AuthUserInsert(maxUsers) ==
    /\ nextId.user <= maxUsers
    /\ Commit(SignedUp(DB, nextId.user))
    /\ result' = Answer([Idle EXCEPT !.op = "auth_user_insert",
                                     !.target = nextId.user], Success)
    /\ UNCHANGED <<now, reauths, sessions>>

Tick(maxTime) ==
    /\ now + TickStep <= maxTime
    /\ now' = now + TickStep
    /\ UNCHANGED <<authUsers, users, profiles, identities, attrs,
                   pending_merges, nextId, reauths, result, sessions>>

\* the callers a request can come from: anonymous, or any principal that has
\* ever signed up (a deleted principal's JWT outlives its auth.users row)
Callers == {NoId} \cup (1..(nextId.user - 1))

\* a call begins on the idle connection s
Called(op, c) ==
    [Idle EXCEPT !.op = op, !.caller = c, !.at = now]

\* ------------------------------------------------ writes of auth.identities
\* INSERT INTO auth.identities, which fires on_identity_created
IdentityInsert(s, u, p, data, maxIdentities) ==
    LET id == nextId.identity
        v == View(s)
    IN /\ sessions[s].pc = "idle"
       /\ u \in authUsers
       /\ id <= maxIdentities
       /\ Run(s, [v EXCEPT !.identities = @ @@ (id :>
                      [user_id |-> u, provider |-> p,
                       identity_data |-> data]),
                           !.nextId.identity = id + 1],
              NoLocks, NoLocks,
              [Called("identity_insert", u) EXCEPT
                  !.identity = id, !.queue = {id}, !.pc = "fired",
                  !.cont = "returning", !.ret = Success])

\* UPDATE auth.identities SET identity_data = .. WHERE id = i on
\* re-authentication, which fires on_identity_updated
IdentityUpdate(s, i, data, maxReauths) ==
    LET v == View(s)
    IN /\ sessions[s].pc = "idle"
       /\ i \in DOMAIN identities
       /\ reauths < maxReauths
       /\ Run(s, [v EXCEPT !.identities[i].identity_data = data],
              [NoLocks EXCEPT !.identities = {i}], NoLocks,
              [Called("identity_update", identities[i].user_id) EXCEPT
                  !.identity = i, !.queue = {i}, !.pc = "fired",
                  !.cont = "returning", !.ret = Success])

\* ------------------------------------------------ set_preferred_attribute
\* SELECT profile_id, attribute_key INTO v_profile_id, v_attribute_key FROM
\* public.profile_attributes WHERE id = attr_id
SetPreferredRead(s, a, c) ==
    /\ sessions[s].pc = "idle"
    /\ Goto(s, [Called("set_preferred_attribute", c) EXCEPT
           !.pc = "p_read", !.attr = a,
           !.tp = IF a \in DOMAIN attrs THEN attrs[a].profile_id ELSE NoId,
           !.key = IF a \in DOMAIN attrs THEN attrs[a].attribute_key
                   ELSE SqlNull])

\* IF NOT EXISTS (SELECT 1 FROM public.users WHERE id = auth.uid() AND
\* profile_id = v_profile_id) THEN RAISE EXCEPTION 'Unauthorized'
SetPreferredCheck(s) ==
    LET m == sessions[s]
    IN /\ m.pc = "p_read"
       /\ IF OwnsProfile(View(s).users, m.caller, m.tp)
          THEN Goto(s, [m EXCEPT !.pc = "p_checked"])
          ELSE Abort(s, m, ErrUnauthorized)

\* UPDATE .. SET is_preferred = FALSE WHERE profile_id = v_profile_id AND
\* attribute_key = v_attribute_key begins: the rows on its snapshot
SetPreferredUnsetRead(s) ==
    LET m == sessions[s]
    IN /\ m.pc = "p_checked"
       /\ Goto(s, [m EXCEPT
              !.pc = "p_unsetting",
              !.plan.rows = RowsOf(View(s).attrs, m.tp, m.key)])

\* the UPDATE writes the rows that are still of the profile and the key
SetPreferredUnset(s) ==
    Statement(s, "p_unsetting", [sessions[s] EXCEPT !.pc = "p_unset"])

\* UPDATE .. SET is_preferred = TRUE WHERE id = attr_id
SetPreferredSet(s) ==
    Statement(s, "p_unset", [sessions[s] EXCEPT !.pc = "p_set"])

\* UPDATE public.profiles SET display_name = CASE .., primary_email = CASE ..
\* WHERE id = v_profile_id.  The subquery reads the row attr_id, which the
\* transaction has locked or which is gone: it reads the same value on the
\* statement's snapshot and when the statement writes.
SetPreferredSync(s) ==
    Statement(s, "p_set", Returning(sessions[s], Success))

\* ---------------------------------------------------- create_merge_request
\* v_user_id := auth.uid(); DELETE FROM public.pending_merges WHERE
\* requester_id = v_user_id begins: the rows of the requester on its snapshot
CreateRead(s, c, maxTokens) ==
    LET m == Called("create_merge_request", c)
    IN /\ sessions[s].pc = "idle"
       /\ nextId.token <= maxTokens
       /\ Goto(s, IF c = NoId
                  THEN Returning(m, Failure(ErrNotAuthenticated))
                  ELSE [m EXCEPT
                          !.pc = "c_deleting",
                          !.plan.rows =
                              {k \in DOMAIN pending_merges :
                                  pending_merges[k].requester_id = c}])

\* the DELETE removes the rows it found that are still there
CreateDelete(s) ==
    Statement(s, "c_deleting", [sessions[s] EXCEPT !.pc = "c_deleted"])

\* INSERT INTO public.pending_merges (requester_id) VALUES (v_user_id)
\* RETURNING token INTO v_token
CreateInsert(s) ==
    Statement(s, "c_deleted",
        [Returning(sessions[s],
             [success |-> TRUE, error |-> SqlNull,
              token |-> View(s).nextId.token])
         EXCEPT !.token = View(s).nextId.token])

\* ------------------------------------------------ get_merge_requester_info
\* mutant: the lookup deletes the request it reads
InfoLookupConsuming(s, k, c) ==
    LET v == View(s)
        m == [Called("get_merge_requester_info", c) EXCEPT !.token = k]
        requester == LiveRequester(pending_merges, k, now)
    IN /\ sessions[s].pc = "idle"
       /\ Run(s, [v EXCEPT !.pending_merges = ConsumeToken(@, k)], NoLocks,
              NoLocks,
              IF c = NoId
              THEN Returning(m, Failure(ErrNotAuthenticated))
              ELSE IF requester = NoId
              THEN Returning(m, Failure(ErrInvalidToken))
              ELSE IF requester = c
              THEN Returning(m, Failure(ErrSameUser))
              ELSE [m EXCEPT !.pc = "i_found", !.requester = requester])

\* SELECT requester_id INTO v_requester_id FROM public.pending_merges WHERE
\* token = p_token AND expires_at > NOW(), and the checks around it
InfoLookup(s, k, c) ==
    LET m == [Called("get_merge_requester_info", c) EXCEPT !.token = k]
        requester == LiveRequester(pending_merges, k, now)
    IN /\ sessions[s].pc = "idle"
       /\ Goto(s, IF c = NoId
                  THEN Returning(m, Failure(ErrNotAuthenticated))
                  ELSE IF requester = NoId
                  THEN Returning(m, Failure(ErrInvalidToken))
                  ELSE IF requester = c
                  THEN Returning(m, Failure(ErrSameUser))
                  ELSE [m EXCEPT !.pc = "i_found",
                                 !.requester = requester])

\* SELECT p.display_name, p.primary_email .. FROM public.users u LEFT JOIN
\* public.profiles p .. WHERE u.id = v_requester_id; RETURN
InfoSelect(s) ==
    LET m == sessions[s]
        v == View(s)
    IN /\ m.pc = "i_found"
       /\ Goto(s, Returning(m,
              RequesterInfo(m.requester,
                  RequesterProfile(v.users, v.profiles, m.requester))))

\* ---------------------------------------------------- cancel_merge_request
\* DELETE FROM public.pending_merges WHERE token = p_token
CancelDelete(s, k, c) ==
    LET v == View(s)
    IN /\ sessions[s].pc = "idle"
       /\ Run(s, [v EXCEPT !.pending_merges =
                               CancelRequest(v.pending_merges, k, c, now)],
              [NoLocks EXCEPT !.pending_merges = {k}], NoLocks,
              Returning([Called("cancel_merge_request", c) EXCEPT
                            !.token = k], Success))

\* ------------------------------------------------ execute_merge_with_token
\* auth.uid(); SELECT requester_id INTO v_requester_id .. WHERE token =
\* p_token AND expires_at > NOW()
MergeLookup(s, k, c) ==
    LET m == [Called("execute_merge_with_token", c) EXCEPT !.token = k]
        requester == LiveRequester(pending_merges, k, now)
    IN /\ sessions[s].pc = "idle"
       /\ Goto(s, IF c = NoId
                  THEN Returning(m, Failure(ErrNotAuthenticated))
                  ELSE IF requester = NoId
                  THEN Returning(m, Failure(ErrInvalidToken))
                  ELSE [m EXCEPT !.pc = "found", !.requester = requester])

\* DELETE FROM public.pending_merges WHERE token = p_token; IF
\* v_requester_id = v_current_user_id THEN RETURN ..; SELECT
\* merge_profiles_internal(v_requester_id, v_current_user_id)
MergeConsume(s) ==
    LET m == sessions[s]
        roles == MergeRoles(m.requester, m.caller)
    IN Statement(s, "found",
           IF IsSelfMerge(m.requester, m.caller)
           THEN Returning(m, Failure(ErrSelfMerge))
           ELSE [m EXCEPT !.pc = "called", !.target = roles.target,
                          !.source = roles.source])

\* ------------------------------------------------ merge_profiles_internal
\* mutant: a missing source profile is not looked at
SourceCheckNone(tp, sp) == SqlNull

\* IF v_source_profile_id IS NULL ..; IF v_target_profile_id =
\* v_source_profile_id ..
SourceCheck(tp, sp) ==
    IF sp = NoId THEN ErrSourceNoProfile
    ELSE IF tp = sp THEN ErrSameProfile
    ELSE SqlNull

\* IF p_target_user_id = p_source_user_id ..; SELECT profile_id INTO
\* v_target_profile_id FROM public.users WHERE id = p_target_user_id; IF
\* v_target_profile_id IS NULL ..  SQL's = is not true of two NULLs, so the
\* first IF is passed when both arguments are NULL
ReadTarget(s, m) ==
    LET tp == ProfileIdOf(View(s).users, m.target)
    IN Goto(s, IF m.target # NoId /\ m.target = m.source
               THEN Returning(m, Failure(ErrMergeSelf))
               ELSE IF tp = NoId
               THEN Returning(m, Failure(ErrTargetNoProfile))
               ELSE [m EXCEPT !.pc = "target_read", !.tp = tp])

\* merge_profiles_internal as execute_merge_with_token calls it
MergeReadTarget(s) ==
    /\ sessions[s].pc = "called"
    /\ ReadTarget(s, sessions[s])

\* merge_profiles_internal called as an RPC: EXECUTE is granted to
\* service_role and was never revoked from PUBLIC; the function is not
\* STRICT, so either argument can be NULL
MergeDirect(s, target, source) ==
    /\ sessions[s].pc = "idle"
    /\ ReadTarget(s, [Called("merge_profiles_internal", NoId) EXCEPT
                         !.target = target, !.source = source])

\* SELECT profile_id INTO v_source_profile_id .. WHERE id =
\* p_source_user_id, and the two checks after it
MergeReadSource(s) ==
    LET m == sessions[s]
        sp == ProfileIdOf(View(s).users, m.source)
    IN /\ m.pc = "target_read"
       /\ Goto(s, IF SourceCheck(m.tp, sp) # SqlNull
                  THEN Returning(m, Failure(SourceCheck(m.tp, sp)))
                  ELSE [m EXCEPT !.pc = "validated", !.sp = sp])

\* 1. UPDATE auth.identities SET user_id = p_target_user_id WHERE user_id =
\* p_source_user_id begins: the rows of the source on its snapshot
MergeIdentitiesRead(s) ==
    LET m == sessions[s]
        v == View(s)
    IN /\ m.pc = "validated"
       /\ Goto(s, [m EXCEPT
              !.pc = "moving_identities",
              !.plan.rows = {i \in DOMAIN v.identities :
                                v.identities[i].user_id = m.source}])

\* the UPDATE writes the rows that are still of the source; GET DIAGNOSTICS
\* v_identities_moved = ROW_COUNT; on_identity_updated fires for each
MergeMoveIdentities(s) ==
    LET m == sessions[s]
        rows == StillOwned(View(s), m)
    IN Statement(s, "moving_identities",
           [m EXCEPT !.moved = Cardinality(rows), !.queue = rows,
                     !.cont = "moved",
                     !.pc = IF rows = {} THEN "moved" ELSE "fired"])

\* 2. UPDATE public.profile_attributes SET profile_id = v_target_profile_id,
\* is_preferred = FALSE WHERE profile_id = v_source_profile_id begins
MergeAttributesRead(s) ==
    LET m == sessions[s]
        v == View(s)
    IN /\ m.pc = "moved"
       /\ Goto(s, [m EXCEPT
              !.pc = "moving_attributes",
              !.plan.rows = {a \in DOMAIN v.attrs :
                                v.attrs[a].profile_id = m.sp}])

\* the UPDATE writes the rows that are still under the source profile; GET
\* DIAGNOSTICS v_merged_count = ROW_COUNT
MergeMoveAttributes(s) ==
    LET m == sessions[s]
    IN Statement(s, "moving_attributes",
           [m EXCEPT !.merged = Cardinality(StillUnder(View(s), m, m.sp)),
                     !.pc = "attrs_moved"])

\* 3. UPDATE public.profiles SET merged_user_ids = array_append(..)
MergeAppend(s) ==
    Statement(s, "attrs_moved", [sessions[s] EXCEPT !.pc = "appended"])

\* 4. DELETE FROM public.profiles WHERE id = v_source_profile_id
MergeDeleteProfile(s) ==
    Statement(s, "appended", [sessions[s] EXCEPT !.pc = "profile_deleted"])

\* 5. DELETE FROM public.users WHERE id = p_source_user_id
MergeDeleteUser(s) ==
    Statement(s, "profile_deleted",
              [sessions[s] EXCEPT !.pc = "user_deleted"])

\* 6. DELETE FROM auth.users WHERE id = p_source_user_id; RETURN
\* json_build_object('success', true, ...)
MergeDeleteAuthUser(s) ==
    LET m == sessions[s]
    IN Statement(s, "user_deleted",
           Returning(m, [success |-> TRUE, error |-> SqlNull,
                         target_profile_id |-> m.tp,
                         source_profile_deleted |-> m.sp,
                         attributes_merged |-> m.merged,
                         identities_moved |-> m.moved,
                         source_user_deleted |-> m.source]))

\* --------------------------------------------------------- merge_profiles
\* the legacy merge, called as an RPC: SELECT profile_id INTO
\* v_target_profile_id ..; IF v_target_profile_id IS NULL ..
LegacyReadTarget(s, target, source) ==
    LET m == [Called("merge_profiles", NoId) EXCEPT
                 !.target = target, !.source = source]
        tp == ProfileIdOf(users, target)
    IN /\ sessions[s].pc = "idle"
       /\ Goto(s, IF tp = NoId
                  THEN Returning(m, Failure(ErrTargetNoProfile))
                  ELSE [m EXCEPT !.pc = "l_target_read", !.tp = tp])

\* SELECT profile_id INTO v_source_profile_id .., and the two checks
LegacyReadSource(s) ==
    LET m == sessions[s]
        sp == ProfileIdOf(View(s).users, m.source)
    IN /\ m.pc = "l_target_read"
       /\ Goto(s, IF SourceCheck(m.tp, sp) # SqlNull
                  THEN Returning(m, Failure(SourceCheck(m.tp, sp)))
                  ELSE [m EXCEPT !.pc = "l_validated", !.sp = sp])

\* UPDATE public.profile_attributes SET profile_id = v_target_profile_id,
\* is_preferred = FALSE WHERE profile_id = v_source_profile_id begins
LegacyAttributesRead(s) ==
    LET m == sessions[s]
        v == View(s)
    IN /\ m.pc = "l_validated"
       /\ Goto(s, [m EXCEPT
              !.pc = "l_moving",
              !.plan.rows = {a \in DOMAIN v.attrs :
                                v.attrs[a].profile_id = m.sp}])

\* the UPDATE writes; GET DIAGNOSTICS v_merged_count = ROW_COUNT
LegacyMoveAttributes(s) ==
    LET m == sessions[s]
    IN Statement(s, "l_moving",
           [m EXCEPT !.merged = Cardinality(StillUnder(View(s), m, m.sp)),
                     !.pc = "l_moved"])

\* UPDATE public.users SET profile_id = v_target_profile_id WHERE id =
\* p_source_user_id
LegacyPointUser(s) ==
    Statement(s, "l_moved", [sessions[s] EXCEPT !.pc = "l_pointed"])

\* UPDATE public.profiles SET merged_user_ids = array_append(..)
LegacyAppend(s) ==
    Statement(s, "l_pointed", [sessions[s] EXCEPT !.pc = "l_appended"])

\* DELETE FROM public.profiles WHERE id = v_source_profile_id; RETURN
\* json_build_object('success', true, ...)
LegacyDeleteProfile(s) ==
    LET m == sessions[s]
    IN Statement(s, "l_appended",
           Returning(m, [success |-> TRUE, error |-> SqlNull,
                         target_profile_id |-> m.tp,
                         source_profile_deleted |-> m.sp,
                         attributes_merged |-> m.merged,
                         source_user_id |-> m.source]))

\* ------------------------------------------------------ the specifications
\* the statements of sync_identity_to_profile for a principal that has its
\* public.users row
SyncSteps(s) ==
    \/ SyncUserExists(s)
    \/ SyncProfileSelect(s)
    \/ SyncProfileInsert(s)
    \/ SyncProfileLink(s)
    \/ SyncUpsert(s)
    \/ SyncBootstrap(s)
    \/ SyncMark(s)
    \/ SyncAggregateRead(s)
    \/ SyncAggregateUpdate(s)

\* the statements of merge_profiles_internal
InternalSteps(s) ==
    \/ MergeReadSource(s)
    \/ MergeIdentitiesRead(s)
    \/ MergeMoveIdentities(s)
    \/ MergeAttributesRead(s)
    \/ MergeMoveAttributes(s)
    \/ MergeAppend(s)
    \/ MergeDeleteProfile(s)
    \/ MergeDeleteUser(s)
    \/ MergeDeleteAuthUser(s)

\* the statements of execute_merge_with_token after the lookup
MergeSteps(s) ==
    \/ MergeConsume(s)
    \/ MergeReadTarget(s)
    \/ InternalSteps(s)

PreferSteps(s) ==
    \/ SetPreferredCheck(s)
    \/ SetPreferredUnsetRead(s)
    \/ SetPreferredUnset(s)
    \/ SetPreferredSet(s)
    \/ SetPreferredSync(s)

LegacySteps(s) ==
    \/ LegacyReadSource(s)
    \/ LegacyAttributesRead(s)
    \/ LegacyMoveAttributes(s)
    \/ LegacyPointUser(s)
    \/ LegacyAppend(s)
    \/ LegacyDeleteProfile(s)

\* n connections, none with a call in progress, on the database db
StartsWith(db, n) ==
    /\ StartsAs(db)
    /\ now = 0
    /\ reauths = 0
    /\ result = NoAnswer
    /\ sessions = [s \in 1..n |-> Idle]

Init == StartsWith(EmptyDB, 1)

\* Spec: two accounts that sign up, link identities, set preferences and run
\* the merge handshake, one call after another
Next ==
    \/ AuthUserInsert(MaxUsers)
    \/ \E s \in Connections, u \in authUsers, p \in Providers,
          data \in InputClaims : IdentityInsert(s, u, p, data, MaxIdentities)
    \/ \E s \in Connections : SyncSteps(s)
    \/ \E s \in Connections, a \in 1..nextId.attr, c \in Callers :
          SetPreferredRead(s, a, c)
    \/ \E s \in Connections : PreferSteps(s)
    \/ \E s \in Connections, c \in Callers : CreateRead(s, c, MaxTokens)
    \/ \E s \in Connections : CreateDelete(s)
    \/ \E s \in Connections : CreateInsert(s)
    \/ \E s \in Connections, k \in 1..MaxTokens, c \in Callers :
          InfoLookup(s, k, c)
    \/ \E s \in Connections : InfoSelect(s)
    \/ \E s \in Connections, k \in 1..MaxTokens, c \in Callers :
          CancelDelete(s, k, c)
    \/ \E s \in Connections, k \in 1..MaxTokens, c \in Callers :
          MergeLookup(s, k, c)
    \/ \E s \in Connections : MergeSteps(s)
    \/ \E s \in Connections : Return(s)

Spec == Init /\ [][Next]_vars

\* ------------------------------------------------------- concurrent runs
\* SpecSyncRace: two connections write auth.identities.  Principal 1 was in
\* auth.users before the migrations created the trigger
\* on_auth_user_created: it has no public.users row.
InitSyncRace ==
    StartsWith([EmptyDB EXCEPT !.authUsers = {1}, !.nextId.user = 2],
               RaceSessions)

NextSyncRace ==
    \/ AuthUserInsert(SyncUsers)
    \/ \E s \in Connections, u \in authUsers, p \in Providers,
          data \in InputClaims : IdentityInsert(s, u, p, data, SyncIdentities)
    \/ \E s \in Connections, i \in DOMAIN identities, data \in InputClaims :
          IdentityUpdate(s, i, data, SyncReauths)
    \/ \E s \in Connections : SyncUserInsert(s)
    \/ \E s \in Connections : SyncSteps(s)
    \/ \E s \in Connections : Return(s)

SpecSyncRace == InitSyncRace /\ [][NextSyncRace]_vars

\* SpecCreateRace: two principals have signed up, and two connections run
\* create_merge_request
InitCreateRace ==
    StartsWith(SignedUp(SignedUp(EmptyDB, 1), 2), RaceSessions)

NextCreateRace ==
    \/ \E s \in Connections, c \in Callers : CreateRead(s, c, RaceTokens)
    \/ \E s \in Connections : CreateDelete(s)
    \/ \E s \in Connections : CreateInsert(s)
    \/ \E s \in Connections : Return(s)
    \/ \E s \in Connections : StatementRow(s)
    \/ \E s \in Connections : Deadlock(s)

SpecCreateRace == InitCreateRace /\ [][NextCreateRace]_vars

\* the accounts 1..n have each linked an identity with the claims data[n]
\* and created a merge request
RECURSIVE MergeRaceDBsWith(_, _)
MergeRaceDBsWith(n, data) ==
    IF n = 0 THEN {EmptyDB}
    ELSE UNION {{InsertRequest(d2, n, 0)
                    : d2 \in LinkedDBs(SignedUp(d, n), n, "google",
                                       data[n], 0)}
                : d \in MergeRaceDBsWith(n - 1, data)}

MergeRaceDBs(n) ==
    MergeRaceDBsWith(n, [i \in 1..n |->
                            Claims([email |-> "a@x.com", name |-> "Ann"])])

\* SpecMergeRace: two accounts, each with a request, and two connections
\* that run execute_merge_with_token
InitMergeRace ==
    \E d \in MergeRaceDBs(MergeRaceUsers) : StartsWith(d, RaceSessions)

NextMergeRace ==
    \/ \E s \in Connections, k \in 1..MergeRaceUsers, c \in Callers :
          MergeLookup(s, k, c)
    \/ \E s \in Connections : MergeSteps(s)
    \/ \E s \in Connections : SyncSteps(s)
    \/ \E s \in Connections : SyncUserInsert(s)
    \/ \E s \in Connections : Return(s)
    \/ \E s \in Connections : Deadlock(s)
    \/ \E s \in Connections : StatementRow(s)

SpecMergeRace == InitMergeRace /\ [][NextMergeRace]_vars

\* SpecTokenRace: the statements of SpecMergeRace, started with
\* TokenRaceUsers accounts of which only account 1 has a merge request
\* (token 1), so that every merge there is uses that one token.
InitTokenRace ==
    \E d \in MergeRaceDBs(TokenRaceUsers) :
        StartsWith([d EXCEPT !.pending_merges =
                       Drop(d.pending_merges, DOMAIN d.pending_merges \ {1})],
                   RaceSessions)

NextTokenRace ==
    \/ \E s \in Connections, k \in 1..TokenRaceUsers, c \in Callers :
          MergeLookup(s, k, c)
    \/ \E s \in Connections : MergeSteps(s)
    \/ \E s \in Connections : SyncSteps(s)
    \/ \E s \in Connections : Return(s)

SpecTokenRace == InitTokenRace /\ [][NextTokenRace]_vars

\* SpecPreferRace: account 1 has linked two identities with different
\* emails, account 2 has signed up; two connections run
\* set_preferred_attribute
InitPreferRace ==
    \E d1 \in LinkedDBs(SignedUp(SignedUp(EmptyDB, 1), 2), 1, "google",
                        Claims([email |-> "a@x.com", name |-> "Ann"]), 0) :
        \E d2 \in LinkedDBs(d1, 1, "google",
                            Claims([email |-> "a@work.com"]), 0) :
            StartsWith(d2, RaceSessions)

NextPreferRace ==
    \/ \E s \in Connections, a \in 1..nextId.attr, c \in Callers :
          SetPreferredRead(s, a, c)
    \/ \E s \in Connections : PreferSteps(s)
    \/ \E s \in Connections : Return(s)
    \/ \E s \in Connections : StatementRow(s)
    \/ \E s \in Connections : Deadlock(s)

SpecPreferRace == InitPreferRace /\ [][NextPreferRace]_vars

\* SpecPreferMergeRace: two accounts that have each linked an identity and
\* created a merge request, account 1 with claims that hold an email only
\* and account 2 with an email and a name; their connections run
\* execute_merge_with_token and set_preferred_attribute.
InitPreferMergeRace ==
    \E d \in MergeRaceDBsWith(MergeRaceUsers,
                [i \in 1..MergeRaceUsers |->
                    IF i = 1 THEN Claims([email |-> "a@work.com"])
                    ELSE Claims([email |-> "a@x.com", name |-> "Ann"])]) :
        StartsWith(d, RaceSessions)

NextPreferMergeRace ==
    \/ \E s \in Connections, k \in 1..MergeRaceUsers, c \in authUsers :
          MergeLookup(s, k, c)
    \/ \E s \in Connections : MergeSteps(s)
    \/ \E s \in Connections : SyncSteps(s)
    \/ \E s \in Connections, a \in DOMAIN attrs, c \in authUsers :
          SetPreferredRead(s, a, c)
    \/ \E s \in Connections : PreferSteps(s)
    \/ \E s \in Connections : Return(s)
    \/ \E s \in Connections : Deadlock(s)
    \/ \E s \in Connections : SyncUserInsert(s)
    \/ \E s \in Connections : StatementRow(s)

SpecPreferMergeRace == InitPreferMergeRace /\ [][NextPreferMergeRace]_vars

\* SpecStaleRace: the accounts of SpecPreferMergeRace after account 1 has
\* linked a second identity, with an email of its own and a name; only the
\* merge request of account 1 is left, and set_preferred_attribute is called
\* on the primary_email rows.
InitStaleRace ==
    \E d \in MergeRaceDBsWith(MergeRaceUsers,
                [i \in 1..MergeRaceUsers |->
                    IF i = 1 THEN Claims([email |-> "a@work.com"])
                    ELSE Claims([email |-> "a@x.com", name |-> "Ann"])]) :
        \E d2 \in LinkedDBs(d, 1, "google",
                     Claims([email |-> "a@x.com", name |-> "Ann"]), 0) :
            StartsWith([d2 EXCEPT !.pending_merges =
                           Drop(d2.pending_merges,
                                DOMAIN d2.pending_merges \ {1})],
                       RaceSessions)

NextStaleRace ==
    \/ \E s \in Connections, c \in authUsers : MergeLookup(s, 1, c)
    \/ \E s \in Connections : MergeSteps(s)
    \/ \E s \in Connections : SyncSteps(s)
    \/ \E s \in Connections, c \in authUsers :
          \E a \in {b \in DOMAIN attrs :
                       attrs[b].attribute_key = "primary_email"} :
              SetPreferredRead(s, a, c)
    \/ \E s \in Connections : PreferSteps(s)
    \/ \E s \in Connections : Return(s)
    \/ \E s \in Connections : StatementRow(s)
    \/ \E s \in Connections : Deadlock(s)

SpecStaleRace == InitStaleRace /\ [][NextStaleRace]_vars

\* SpecAllRace: account 1 has linked an identity whose claims hold an email
\* only, account 2 one with an email and a name, and account 1 has created
\* a merge request. Two connections run execute_merge_with_token with its
\* token, run set_preferred_attribute on the display_name rows, and link or
\* refresh an identity: of these two calls there is one in a run, the
\* further runs of sync_identity_to_profile are those that the merge fires
InitAllRace ==
    \E d \in MergeRaceDBsWith(MergeRaceUsers,
                [i \in 1..MergeRaceUsers |->
                    IF i = 1 THEN Claims([email |-> "a@work.com"])
                    ELSE Claims([email |-> "a@x.com", name |-> "Ann"])]) :
        StartsWith([d EXCEPT !.pending_merges =
                       Drop(d.pending_merges, DOMAIN d.pending_merges \ {1})],
                   RaceSessions)

NextAllRace ==
    \/ \E s \in Connections, u \in authUsers, p \in Providers :
          IdentityInsert(s, u, p,
              Claims([email |-> "a@x.com", name |-> "Ann"]),
              AllIdentities - reauths)
    \/ \E s \in Connections, i \in DOMAIN identities :
          IdentityUpdate(s, i,
              Claims([email |-> "a@x.com", name |-> "Ann"]),
              AllIdentities + 1 - nextId.identity)
    \/ \E s \in Connections : SyncSteps(s)
    \/ \E s \in Connections : SyncUserInsert(s)
    \/ \E s \in Connections, c \in authUsers :
          \E a \in {b \in DOMAIN attrs :
                       attrs[b].attribute_key = "display_name"} :
              SetPreferredRead(s, a, c)
    \/ \E s \in Connections : PreferSteps(s)
    \/ \E s \in Connections, c \in authUsers : MergeLookup(s, 1, c)
    \/ \E s \in Connections : MergeSteps(s)
    \/ \E s \in Connections : StatementRow(s)
    \/ \E s \in Connections : Return(s)
    \/ \E s \in Connections : Deadlock(s)

SpecAllRace == InitAllRace /\ [][NextAllRace]_vars

\* SpecInfoRace: the two accounts of SpecMergeRace; their connections run
\* execute_merge_with_token and get_merge_requester_info
NextInfoRace ==
    \/ \E s \in Connections, k \in 1..MergeRaceUsers, c \in Callers :
          MergeLookup(s, k, c)
    \/ \E s \in Connections : MergeSteps(s)
    \/ \E s \in Connections : SyncSteps(s)
    \/ \E s \in Connections, k \in 1..MergeRaceUsers, c \in Callers :
          InfoLookup(s, k, c)
    \/ \E s \in Connections : InfoSelect(s)
    \/ \E s \in Connections : Return(s)
    \/ \E s \in Connections : Deadlock(s)
    \/ \E s \in Connections : SyncUserInsert(s)
    \/ \E s \in Connections : StatementRow(s)

SpecInfoRace == InitMergeRace /\ [][NextInfoRace]_vars

\* SpecDirectRace: the two accounts of SpecMergeRace; their connections call
\* merge_profiles_internal directly
NextDirectRace ==
    \/ \E s \in Connections, target, source \in Callers :
          MergeDirect(s, target, source)
    \/ \E s \in Connections : InternalSteps(s)
    \/ \E s \in Connections : SyncSteps(s)
    \/ \E s \in Connections : Return(s)
    \/ \E s \in Connections : Deadlock(s)
    \/ \E s \in Connections : SyncUserInsert(s)
    \/ \E s \in Connections : StatementRow(s)

SpecDirectRace == InitMergeRace /\ [][NextDirectRace]_vars

\* SpecLegacyRace: the connections of SpecDirectRace call merge_profiles as
\* well
NextLegacyRace ==
    \/ NextDirectRace
    \/ \E s \in Connections, target, source \in Callers \ {NoId} :
          LegacyReadTarget(s, target, source)
    \/ \E s \in Connections : LegacySteps(s)

SpecLegacyRace == InitMergeRace /\ [][NextLegacyRace]_vars

\* ------------------------------------------------- runs of one connection
\* the accounts 1..n have each linked an identity with claims out of C
RECURSIVE LinkedAccounts(_, _)
LinkedAccounts(n, C) ==
    IF n = 0 THEN {EmptyDB}
    ELSE UNION {LinkedDBs(SignedUp(d[1], n), n, "google", d[2], 0)
                : d \in LinkedAccounts(n - 1, C) \X C}

\* SpecHandshake: two accounts that have each linked an identity run the
\* merge handshake while the clock advances
InitHandshake ==
    \E d \in LinkedAccounts(HandshakeUsers,
                           {Claims([email |-> "a@x.com", name |-> "Ann"])}) :
        StartsWith(d, 1)

NextHandshake ==
    \/ Tick(MaxTime)
    \/ \E s \in Connections, c \in Callers : CreateRead(s, c, HandshakeTokens)
    \/ \E s \in Connections : CreateDelete(s)
    \/ \E s \in Connections : CreateInsert(s)
    \/ \E s \in Connections, k \in 1..HandshakeTokens, c \in Callers :
          InfoLookup(s, k, c)
    \/ \E s \in Connections : InfoSelect(s)
    \/ \E s \in Connections, k \in 1..HandshakeTokens, c \in Callers :
          CancelDelete(s, k, c)
    \/ \E s \in Connections, k \in 1..HandshakeTokens, c \in Callers :
          MergeLookup(s, k, c)
    \/ \E s \in Connections : MergeSteps(s)
    \/ \E s \in Connections : SyncSteps(s)
    \/ \E s \in Connections : Return(s)

SpecHandshake == InitHandshake /\ [][NextHandshake]_vars

\* SpecChain: three accounts that have each linked an identity create
\* merge requests and merge, for what takes two merges in a row
InitChain ==
    \E d \in LinkedAccounts(ChainUsers, InputClaims) : StartsWith(d, 1)

NextChain ==
    \/ \E s \in Connections, c \in Callers : CreateRead(s, c, ChainTokens)
    \/ \E s \in Connections : CreateDelete(s)
    \/ \E s \in Connections : CreateInsert(s)
    \/ \E s \in Connections, k \in 1..ChainTokens, c \in Callers :
          MergeLookup(s, k, c)
    \/ \E s \in Connections : MergeSteps(s)
    \/ \E s \in Connections : SyncSteps(s)
    \/ \E s \in Connections : Return(s)

SpecChain == InitChain /\ [][NextChain]_vars

\* SpecClaims: one account links identities and re-authenticates with every
\* shape of identity_data in ExtractionClaims
NextClaims ==
    \/ AuthUserInsert(ClaimsUsers)
    \/ \E s \in Connections, u \in authUsers, p \in Providers,
          data \in ExtractionClaims :
          IdentityInsert(s, u, p, data, ClaimsIdentities)
    \/ \E s \in Connections, i \in DOMAIN identities,
          data \in ExtractionClaims : IdentityUpdate(s, i, data, ClaimsReauths)
    \/ \E s \in Connections : SyncSteps(s)
    \/ \E s \in Connections : Return(s)

SpecClaims == Init /\ [][NextClaims]_vars

\* SpecRpc: two accounts that sign up, link identities, run the handshake,
\* or call merge_profiles_internal themselves
NextRpc ==
    \/ AuthUserInsert(MaxUsers)
    \/ \E s \in Connections, u \in authUsers, p \in Providers,
          data \in InputClaims : IdentityInsert(s, u, p, data, MaxIdentities)
    \/ \E s \in Connections : SyncSteps(s)
    \/ \E s \in Connections, c \in Callers : CreateRead(s, c, MaxTokens)
    \/ \E s \in Connections : CreateDelete(s)
    \/ \E s \in Connections : CreateInsert(s)
    \/ \E s \in Connections, k \in 1..MaxTokens, c \in Callers :
          MergeLookup(s, k, c)
    \/ \E s \in Connections : MergeConsume(s)
    \/ \E s \in Connections : MergeReadTarget(s)
    \/ \E s \in Connections, target, source \in Callers :
          MergeDirect(s, target, source)
    \/ \E s \in Connections : InternalSteps(s)
    \/ \E s \in Connections : Return(s)

SpecRpc == Init /\ [][NextRpc]_vars

\* SpecLegacy: two accounts that sign up, link identities and call either
\* merge function directly, so that two users can come to share a profile
NextLegacy ==
    \/ AuthUserInsert(MaxUsers)
    \/ \E s \in Connections, u \in authUsers, p \in Providers,
          data \in InputClaims : IdentityInsert(s, u, p, data, MaxIdentities)
    \/ \E s \in Connections : SyncSteps(s)
    \/ \E s \in Connections, target, source \in Callers :
          MergeDirect(s, target, source)
    \/ \E s \in Connections : InternalSteps(s)
    \/ \E s \in Connections, target, source \in Callers \ {NoId} :
          LegacyReadTarget(s, target, source)
    \/ \E s \in Connections : LegacySteps(s)
    \/ \E s \in Connections : Return(s)

SpecLegacy == Init /\ [][NextLegacy]_vars

\* SpecTie: two accounts, three identities, a merge and a claims refresh
\* after it, which is what it takes for the bootstrap to find a key with
\* several rows and no preferred one
NextTie ==
    \/ AuthUserInsert(TieUsers)
    \/ \E s \in Connections, u \in authUsers, p \in Providers,
          data \in InputClaims : IdentityInsert(s, u, p, data, TieIdentities)
    \/ \E s \in Connections, i \in DOMAIN identities, data \in InputClaims :
          IdentityUpdate(s, i, data, TieReauths)
    \/ \E s \in Connections : SyncSteps(s)
    \/ \E s \in Connections, c \in Callers : CreateRead(s, c, TieTokens)
    \/ \E s \in Connections : CreateDelete(s)
    \/ \E s \in Connections : CreateInsert(s)
    \/ \E s \in Connections, k \in 1..TieTokens, c \in Callers :
          MergeLookup(s, k, c)
    \/ \E s \in Connections : MergeSteps(s)
    \/ \E s \in Connections : Return(s)

SpecTie == Init /\ [][NextTie]_vars

\* SpecKeys: account 1 has linked two identities and account 2 one, with
\* claims that give all four keys; they set preferences
InitKeys ==
    \E d \in LinkedAccounts(KeysUsers, KeyClaims), data \in KeyClaims :
        \E d2 \in LinkedDBs(d, 1, "google", data, 0) : StartsWith(d2, 1)

NextKeys ==
    \/ \E s \in Connections, a \in 1..nextId.attr, c \in Callers :
          SetPreferredRead(s, a, c)
    \/ \E s \in Connections : PreferSteps(s)
    \/ \E s \in Connections : Return(s)

SpecKeys == InitKeys /\ [][NextKeys]_vars

\* SpecRefresh: one account that links identities, sets preferences and
\* re-authenticates
NextRefresh ==
    \/ AuthUserInsert(RefreshUsers)
    \/ \E s \in Connections, u \in authUsers, p \in Providers,
          data \in InputClaims :
          IdentityInsert(s, u, p, data, RefreshIdentities)
    \/ \E s \in Connections, i \in DOMAIN identities, data \in InputClaims :
          IdentityUpdate(s, i, data, RefreshReauths)
    \/ \E s \in Connections : SyncSteps(s)
    \/ \E s \in Connections, a \in 1..nextId.attr, c \in Callers :
          SetPreferredRead(s, a, c)
    \/ \E s \in Connections : PreferSteps(s)
    \/ \E s \in Connections : Return(s)

SpecRefresh == Init /\ [][NextRefresh]_vars

\* ------------------------------------------------------------ properties
\* connection s ends its call in this step: the function returns and the
\* transaction commits, or a statement raises and it is rolled back
Ends(s) == sessions[s].pc # "idle" /\ sessions'[s].pc = "idle"

\* the function returns on connection s in this step, and its transaction
\* commits
Returns(s) == sessions[s].pc = "returning" /\ sessions'[s].pc = "idle"

\* a call of op ends in this step; result' holds its arguments and answer
CallEnds(op) == result'.op = op /\ \E s \in Connections : Ends(s)

\* a call of op returns in this step
CallReturns(op) == result'.op = op /\ \E s \in Connections : Returns(s)

\* a step in which an execute_merge_with_token returns success
MergeSucceeds ==
    CallReturns("execute_merge_with_token") /\ result'.ret.success

\* a state right after a successful merge
AfterMerge ==
    result.op = "execute_merge_with_token" /\ result.ret.success

\* no call is in progress
Quiescent == \A s \in Connections : sessions[s].pc = "idle"

\* C1: each (profile_id, attribute_key) has at most one row with
\* is_preferred = TRUE, whatever consolidation runs, preference changes and
\* merges came before and however they overlapped (what
\* idx_profile_attributes_preferred demands)
OnePreferredPerKey ==
    \A a, b \in DOMAIN attrs :
        (/\ attrs[a].profile_id = attrs[b].profile_id
         /\ attrs[a].attribute_key = attrs[b].attribute_key
         /\ attrs[a].is_preferred
         /\ attrs[b].is_preferred) => a = b

\* account 2 has been merged into account 1, an identity has been linked or
\* refreshed, and the index has refused a set_preferred_attribute call that
\* overlapped with another transaction; the profile has two rows of a key,
\* one of them preferred
OnePreferredPerKeyWitness ==
    /\ Quiescent
    /\ result.op = "set_preferred_attribute"
    /\ result.ret.error = ErrPreferredIndex
    /\ authUsers = {1}
    /\ (nextId.identity > AllIdentities \/ reauths > 0)
    /\ \E p \in DOMAIN profiles, k \in AttributeKeys :
          /\ Cardinality(RowsOf(attrs, p, k)) >= 2
          /\ Cardinality(PreferredRows(attrs, p, k)) = 1

\* C2: a successful merge deletes the source account and its profile, and
\* every identity the source owned still exists and belongs to the target
MergeMovesIdentities ==
    [][MergeSucceeds =>
          LET c == result'.caller
              target == pending_merges[result'.token].requester_id
          IN /\ c \notin authUsers'
             /\ c \notin DOMAIN users'
             /\ users[c] \notin DOMAIN profiles'
             /\ \A i \in DOMAIN identities :
                   identities[i].user_id = c =>
                       /\ i \in DOMAIN identities'
                       /\ identities'[i].user_id = target]_vars

MergeMovesIdentitiesWitness ==
    /\ AfterMerge
    /\ result.ret.identities_moved >= 1
    /\ result.ret.source_user_deleted \notin authUsers
    /\ \E i \in DOMAIN identities : identities[i].user_id \in authUsers

\* C3: after a successful merge every row that was under the source profile
\* is under the target profile and is not preferred
MergeMovesAttributes ==
    [][MergeSucceeds =>
          LET c == result'.caller
              target == pending_merges[result'.token].requester_id
          IN \A a \in DOMAIN attrs :
                attrs[a].profile_id = users[c] =>
                    /\ a \in DOMAIN attrs'
                    /\ attrs'[a].profile_id = users[target]
                    /\ ~attrs'[a].is_preferred]_vars

\* a merge that moved rows, some of which the source had preferred
MergeMovesAttributesWitness ==
    /\ AfterMerge
    /\ result.ret.attributes_merged >= 2
    /\ \E a \in DOMAIN attrs :
          /\ attrs[a].profile_id = result.ret.target_profile_id
          /\ attrs[a].identity_id \in DOMAIN identities
          /\ ~attrs[a].is_preferred

\* C4: after a successful merge, a key that had no preferred row under the
\* target profile and has rows under it now has exactly one preferred row
MergeBootstrapsPreference ==
    [][MergeSucceeds =>
          LET tp == users[pending_merges[result'.token].requester_id]
          IN \A key \in AttributeKeys :
                (/\ PreferredRows(attrs, tp, key) = {}
                 /\ RowsOf(attrs', tp, key) # {})
                => Cardinality(PreferredRows(attrs', tp, key)) = 1]_vars

\* the preferences and the aggregate of the target profile are the same
\* before and after the step
TargetPreferencesKept(tp) ==
    /\ \A key \in AttributeKeys :
          PreferredRows(attrs, tp, key) # {} =>
              PreferredRows(attrs', tp, key) = PreferredRows(attrs, tp, key)
    /\ profiles'[tp].display_name = profiles[tp].display_name
    /\ profiles'[tp].primary_email = profiles[tp].primary_email

\* C5: a merge keeps every preferred row of the target preferred, and leaves
\* the target profile's display_name and primary_email as they were
MergeKeepsTargetPreferences ==
    [][MergeSucceeds =>
          TargetPreferencesKept(
              users[pending_merges[result'.token].requester_id])]_vars

\* C6: when execute_merge_with_token succeeds, the requester that created
\* the token survives as the target and the caller is the deleted source
RequesterSurvives ==
    [][MergeSucceeds =>
          LET c == result'.caller
              requester == pending_merges[result'.token].requester_id
          IN /\ requester \in authUsers'
             /\ requester \in DOMAIN users'
             /\ users'[requester] = users[requester]
             /\ result'.ret.target_profile_id = users[requester]
             /\ result'.ret.source_user_deleted = c
             /\ c \notin authUsers'
             /\ c \notin DOMAIN users']_vars

\* the second account accepted the first account's request
RequesterSurvivesWitness ==
    /\ AfterMerge
    /\ result.ret.source_user_deleted = 2
    /\ authUsers = {1}
    /\ users[1] = result.ret.target_profile_id

\* C7: when a call of execute_merge_with_token that presented a live token
\* has ended, whatever it returned, the request of that token is gone
PresentedTokenIsGone ==
    (/\ result.op = "execute_merge_with_token"
     /\ result.ret.error \notin {ErrNotAuthenticated, ErrInvalidToken})
        => result.token \notin DOMAIN pending_merges

\* C8: of two requests that one requester created, the earlier one is not
\* live any more once both calls have returned
FirstTokenInvalidated ==
    \A j, k \in DOMAIN pending_merges :
        (/\ pending_merges[j].requester_id = pending_merges[k].requester_id
         /\ j < k)
            => LiveRequester(pending_merges, j, now) = NoId

\* C9: no requester has two rows in pending_merges
OneRequestPerRequester ==
    \A j, k \in DOMAIN pending_merges :
        pending_merges[j].requester_id = pending_merges[k].requester_id
            => j = k

\* a step in which execute_merge_with_token returns to a caller that
\* presented a live token of its own
SelfMergeStep ==
    /\ CallReturns("execute_merge_with_token")
    /\ result'.caller # NoId
    /\ \E s \in Connections :
          /\ Returns(s)
          /\ LiveRequester(pending_merges, result'.token, sessions[s].at)
                 = result'.caller

\* C10 as claimed: execute_merge_with_token with the caller's own live token
\* fails with 'Cannot merge account with itself' and changes no table
SelfMergeChangesNothing ==
    [][SelfMergeStep =>
          /\ result'.ret = Failure(ErrSelfMerge)
          /\ UNCHANGED <<authUsers, users, profiles, identities, attrs,
                         pending_merges>>]_vars

\* C10 amended: it fails with 'Cannot merge account with itself', leaves
\* accounts, profiles, identities and attributes as they were, and removes
\* the presented request and no other
SelfMergeOnlyConsumesToken ==
    [][SelfMergeStep =>
          /\ result'.ret = Failure(ErrSelfMerge)
          /\ UNCHANGED <<authUsers, users, profiles, identities, attrs>>
          /\ pending_merges' = Drop(pending_merges, {result'.token})]_vars

\* an account presented its own token while the other account's request was
\* stored: that other request is all that is left
SelfMergeOnlyConsumesTokenWitness ==
    /\ result.op = "execute_merge_with_token"
    /\ result.ret = Failure(ErrSelfMerge)
    /\ nextId.token = 3
    /\ Cardinality(DOMAIN pending_merges) = 1
    /\ result.token \notin DOMAIN pending_merges
    /\ attrs # <<>>

\* the tables no read-only answer and no refused call may change
Stored == <<authUsers, users, profiles, identities, attrs, pending_merges>>

\* a call of op returns in this step to an authenticated caller that
\* presented a token whose request had reached its expires_at when the call
\* began
ExpiredTokenStep(op) ==
    /\ CallReturns(op)
    /\ result'.caller # NoId
    /\ result'.token \in DOMAIN pending_merges
    /\ \E s \in Connections :
          /\ Returns(s)
          /\ pending_merges[result'.token].expires_at <= sessions[s].at

\* C11: for a request with expires_at <= now, execute_merge_with_token and
\* get_merge_requester_info answer 'Invalid or expired merge token' and
\* change no table; every request expires TTL after its creation; and a
\* merge succeeds only with a token whose expires_at was still ahead when
\* the call began
ExpiryAtUse ==
    [][/\ ExpiredTokenStep("execute_merge_with_token")
             => (result'.ret = Failure(ErrInvalidToken) /\ UNCHANGED Stored)
       /\ ExpiredTokenStep("get_merge_requester_info")
             => (result'.ret = Failure(ErrInvalidToken) /\ UNCHANGED Stored)
       /\ \A k \in DOMAIN pending_merges' :
             pending_merges'[k].expires_at =
                 pending_merges'[k].created_at + TTL
       /\ MergeSucceeds =>
             /\ result'.token \in DOMAIN pending_merges
             /\ \E s \in Connections :
                   /\ Returns(s)
                   /\ sessions[s].at
                          < pending_merges[result'.token].expires_at]_vars

\* every token ever issued still has its row, every row has reached its
\* expires_at, and execute_merge_with_token has just refused one of them
ExpiryAtUseWitness ==
    /\ result.op = "execute_merge_with_token"
    /\ result.ret = Failure(ErrInvalidToken)
    /\ DOMAIN pending_merges = 1..HandshakeTokens
    /\ \A k \in DOMAIN pending_merges : pending_merges[k].expires_at <= now

\* the token k has a row whose expires_at is still ahead
IsLive(k) ==
    k \in DOMAIN pending_merges /\ pending_merges[k].expires_at > now

\* C12: when get_merge_requester_info returns success, the requester it names
\* is an existing account other than the caller, and the name and the email
\* returned are those of the requester's profile
RequesterInfoIsOfRequester ==
    [][(CallReturns("get_merge_requester_info") /\ result'.ret.success)
          => LET r == result'.ret.requester_id
             IN /\ r # result'.caller
                /\ r \in DOMAIN users'
                /\ users'[r] \in DOMAIN profiles'
                /\ result'.ret.requester_display_name
                       = profiles'[users'[r]].display_name
                /\ result'.ret.requester_email
                       = profiles'[users'[r]].primary_email]_vars

\* C13: an account is deleted only by a successful execute_merge_with_token
\* that the account itself called with a live token of another account
NoForcedMerge ==
    [][\A u \in authUsers :
          u \notin authUsers' =>
              /\ MergeSucceeds
              /\ result'.caller = u
              /\ IsLive(result'.token)
              /\ pending_merges[result'.token].requester_id # u]_vars

\* C14: set_preferred_attribute on a row of a profile that is not the
\* caller's raises 'Unauthorized' and leaves every is_preferred flag and
\* every profile's display_name and primary_email as they were
ForeignPreferenceRefused ==
    [][(/\ CallEnds("set_preferred_attribute")
        /\ result'.attr \in DOMAIN attrs
        /\ \/ result'.caller \notin DOMAIN users
           \/ users[result'.caller] # attrs[result'.attr].profile_id)
       => /\ result'.ret = Failure(ErrUnauthorized)
          /\ \A b \in DOMAIN attrs :
                /\ b \in DOMAIN attrs'
                /\ attrs'[b].is_preferred = attrs[b].is_preferred
          /\ \A p \in DOMAIN profiles :
                /\ p \in DOMAIN profiles'
                /\ profiles'[p].display_name = profiles[p].display_name
                /\ profiles'[p].primary_email = profiles[p].primary_email
      ]_vars

\* a call was refused while an account with a profile of its own could name
\* a row of another profile
ForeignPreferenceRefusedWitness ==
    /\ result.op = "set_preferred_attribute"
    /\ result.ret = Failure(ErrUnauthorized)
    /\ result.attr \in DOMAIN attrs
    /\ result.caller \in authUsers
    /\ users[result.caller] # NoId
    /\ users[result.caller] # attrs[result.attr].profile_id

\* C15: when a set_preferred_attribute transaction commits, its row is the
\* only preferred row of its (profile_id, attribute_key); and the rows any
\* other transaction can read never show that pair with no preferred row or
\* with two
PreferenceSwitchIsAtomic ==
    [][/\ \A s \in Connections :
             (Returns(s) /\ sessions[s].op = "set_preferred_attribute") =>
                 PreferredRows(attrs', sessions[s].tp, sessions[s].key)
                     = {sessions[s].attr}
       /\ \A p \in DOMAIN profiles', k \in AttributeKeys :
             RowsOf(attrs', p, k) # {} =>
                 Cardinality(PreferredRows(attrs', p, k)) = 1]_vars

\* the preference went to the second email while another connection was in
\* the middle of moving it
PreferenceSwitchIsAtomicWitness ==
    /\ result.op = "set_preferred_attribute"
    /\ result.ret.success
    /\ \E a \in DOMAIN attrs :
          /\ attrs[a].attribute_value = "a@work.com"
          /\ attrs[a].is_preferred
    /\ \E s \in Connections : sessions[s].pc \in {"p_unset", "p_set"}

\* ------------------------------------------- extraction, as specified
\* the strings that are empty after trimming
BlankStrings == {"", "  "}

\* a claim value that is not present: NULL, empty, or empty after trimming
IsBlank(v) == v = SqlNull \/ v \in BlankStrings

\* the claims each key is taken from, highest priority first
PriorityList(k) ==
    CASE k = "display_name"  -> <<"full_name", "name", "display_name">>
      [] k = "primary_email" -> <<"email">>
      [] k = "username"      -> <<"preferred_username", "user_name", "login">>
      [] k = "avatar_url"    -> <<"avatar_url", "picture">>

\* first-match-wins over the present values; NULL when none is present
FirstPresent(data, k) ==
    LET l == PriorityList(k)
    IN IF \A n \in 1..Len(l) : IsBlank(data[l[n]]) THEN SqlNull
       ELSE data[l[CHOOSE n \in 1..Len(l) :
                      /\ ~IsBlank(data[l[n]])
                      /\ \A m \in 1..(n - 1) : IsBlank(data[l[m]])]]

\* the value is there: neither NULL nor the empty string
NonEmpty(v) == v # SqlNull /\ v # ""

\* C16: linking the first identity of an account (its profile_id is NULL)
\* with claims that carry a present email and a present name creates exactly
\* one profile, links it to the account, gives it that email and the
\* display name the claims stand for (the first present of full_name, name,
\* display_name), and leaves a preferred primary_email row and a preferred
\* display_name row with those values
FirstLinkCreatesProfile ==
    [][CallReturns("identity_insert") =>
          LET u == result'.caller
              data == identities'[result'.identity].identity_data
              email == FirstPresent(data, "primary_email")
              name == FirstPresent(data, "display_name")
          IN (/\ users[u] = NoId
              /\ ~IsBlank(data["email"])
              /\ ~IsBlank(data["name"]))
             => /\ DOMAIN profiles' \ DOMAIN profiles = {users'[u]}
                /\ profiles'[users'[u]].primary_email = email
                /\ profiles'[users'[u]].display_name = name
                /\ \E a \in PreferredRows(attrs', users'[u],
                                          "primary_email") :
                      attrs'[a].attribute_value = email
                /\ \E a \in PreferredRows(attrs', users'[u],
                                          "display_name") :
                      attrs'[a].attribute_value = name
                /\ \A k \in AttributeKeys :
                      Cardinality(PreferredRows(attrs', users'[u], k)) <= 1
      ]_vars

\* C17: linking another identity whose email differs from the preferred
\* primary_email of the account's profile adds one primary_email row that is
\* not preferred and leaves the preferred row and the profile's primary_email
\* as they were; set_preferred_attribute on a primary_email row makes its
\* value the profile's primary_email; and only set_preferred_attribute moves
\* the preference, whose row's value the profile's primary_email always is
SecondEmailWaits ==
    [][/\ CallReturns("identity_insert") =>
             LET u == result'.caller
                 data == identities'[result'.identity].identity_data
             IN (/\ users[u] # NoId
                 /\ PreferredRows(attrs, users[u], "primary_email") # {}
                 /\ NonEmpty(data["email"])
                 /\ \A a \in PreferredRows(attrs, users[u],
                                           "primary_email") :
                       attrs[a].attribute_value # data["email"])
                => /\ \E a \in DOMAIN attrs' \ DOMAIN attrs :
                         /\ attrs'[a].profile_id = users[u]
                         /\ attrs'[a].attribute_key = "primary_email"
                         /\ attrs'[a].attribute_value = data["email"]
                         /\ ~attrs'[a].is_preferred
                         /\ \A b \in DOMAIN attrs' \ DOMAIN attrs :
                               attrs'[b].attribute_key = "primary_email"
                                   => b = a
                   /\ PreferredRows(attrs', users[u], "primary_email")
                         = PreferredRows(attrs, users[u], "primary_email")
                   /\ profiles'[users[u]].primary_email
                         = profiles[users[u]].primary_email
       /\ (/\ CallReturns("set_preferred_attribute")
           /\ result'.ret.success
           /\ attrs[result'.attr].attribute_key = "primary_email")
          => profiles'[attrs[result'.attr].profile_id].primary_email
                 = attrs[result'.attr].attribute_value
       /\ \A q \in DOMAIN profiles \cap DOMAIN profiles' :
             (/\ PreferredRows(attrs, q, "primary_email") # {}
              /\ PreferredRows(attrs', q, "primary_email")
                    # PreferredRows(attrs, q, "primary_email"))
             => (result'.op = "set_preferred_attribute"
                    /\ result'.ret.success)
       /\ \A q \in DOMAIN profiles' :
             \A a \in PreferredRows(attrs', q, "primary_email") :
                 profiles'[q].primary_email = attrs'[a].attribute_value
      ]_vars

\* an account linked a@x.com and then a@work.com, and after a preference
\* change its profile shows a@work.com
SecondEmailWaitsWitness ==
    /\ result.op = "set_preferred_attribute"
    /\ result.ret.success
    /\ \E q \in DOMAIN profiles :
          /\ profiles[q].merged_user_ids = <<>>
          /\ profiles[q].primary_email = "a@work.com"
          /\ \E a, b \in RowsOf(attrs, q, "primary_email") :
                /\ attrs[a].identity_id < attrs[b].identity_id
                /\ attrs[a].attribute_value = "a@x.com"
                /\ ~attrs[a].is_preferred
                /\ attrs[b].attribute_value = "a@work.com"
                /\ attrs[b].is_preferred

\* the rows of identity i for the key k
RowsOfIdentity(at, i, k) ==
    {a \in DOMAIN at : at[a].identity_id = i /\ at[a].attribute_key = k}

\* C18: no two rows share an identity_id and an attribute_key; and a refresh
\* of an identity's claims writes, for each key the new claims hold a
\* present value for, that value into the identity's existing row of the
\* key, adding none
RefreshUpdatesInPlace ==
    [][/\ \A i \in DOMAIN identities', k \in AttributeKeys :
             Cardinality(RowsOfIdentity(attrs', i, k)) <= 1
       /\ CallReturns("identity_update") =>
             LET i == result'.identity
                 data == identities'[i].identity_data
             IN \A k \in AttributeKeys :
                   (/\ RowsOfIdentity(attrs, i, k) # {}
                    /\ FirstPresent(data, k) # SqlNull)
                   => /\ RowsOfIdentity(attrs', i, k)
                            = RowsOfIdentity(attrs, i, k)
                      /\ \A a \in RowsOfIdentity(attrs, i, k) :
                            attrs'[a].attribute_value
                                = FirstPresent(data, k)]_vars

\* a step in which the INSERT or the UPDATE of an identity returns
ConsolidationStep ==
    CallReturns("identity_insert") \/ CallReturns("identity_update")

\* C19: a consolidation run whose claims hold no present value for a key
\* leaves the identity's rows of that key as they were, adding, changing and
\* removing none; and no row ever has an empty or blank attribute_value
BlankClaimsWriteNothing ==
    [][/\ ConsolidationStep =>
             LET i == result'.identity
                 data == identities'[i].identity_data
             IN \A k \in AttributeKeys :
                   FirstPresent(data, k) = SqlNull =>
                       /\ RowsOfIdentity(attrs', i, k)
                             = RowsOfIdentity(attrs, i, k)
                       /\ \A a \in RowsOfIdentity(attrs, i, k) :
                             attrs'[a].attribute_value
                                 = attrs[a].attribute_value
       /\ \A a \in DOMAIN attrs' : ~IsBlank(attrs'[a].attribute_value)]_vars

\* C20: after a consolidation run, for each key whose priority list holds a
\* present claim, the identity's row of that key carries the first present
\* one, whatever empty claims stand ahead of it; and a profile the run
\* created shows the first present display_name and email candidates
ExtractionFirstPresent ==
    [][ConsolidationStep =>
          LET i == result'.identity
              data == identities'[i].identity_data
          IN /\ \A k \in AttributeKeys :
                   FirstPresent(data, k) # SqlNull =>
                       /\ RowsOfIdentity(attrs', i, k) # {}
                       /\ \A a \in RowsOfIdentity(attrs', i, k) :
                             attrs'[a].attribute_value
                                 = FirstPresent(data, k)
             /\ \A q \in DOMAIN profiles' \ DOMAIN profiles :
                   /\ FirstPresent(data, "display_name") # SqlNull =>
                         profiles'[q].display_name
                             = FirstPresent(data, "display_name")
                   /\ FirstPresent(data, "primary_email") # SqlNull =>
                         profiles'[q].primary_email
                             = FirstPresent(data, "primary_email")]_vars

\* C21: merge_profiles_internal(target, source) answers 'Cannot merge user
\* with itself' when target and source are one account id, '... has no
\* profile' when either user has no profile, 'Users already share the same
\* profile' when both resolve to one profile; and a call that fails leaves
\* accounts, profiles, identities and attributes as they were.  An account
\* id is never NULL; a call with a NULL argument names no account there,
\* and has to fail with '... has no profile'
MergeFailsWhole ==
    [][CallReturns("merge_profiles_internal") =>
          LET target == result'.target
              source == result'.source
              tp == ProfileIdOf(users, target)
              sp == ProfileIdOf(users, source)
              same == target # NoId /\ target = source
          IN /\ same => result'.ret = Failure(ErrMergeSelf)
             /\ (~same /\ (tp = NoId \/ sp = NoId)) =>
                   /\ ~result'.ret.success
                   /\ result'.ret.error \in {ErrTargetNoProfile,
                                             ErrSourceNoProfile}
             /\ (target # source /\ tp # NoId /\ tp = sp) =>
                   result'.ret = Failure(ErrSameProfile)
             /\ ~result'.ret.success =>
                   UNCHANGED <<authUsers, users, profiles, identities,
                               attrs>>]_vars

\* two users share a profile, and a merge of one into the other was refused
MergeFailsWholeWitness ==
    /\ result.op = "merge_profiles_internal"
    /\ result.ret = Failure(ErrSameProfile)
    /\ authUsers = {1, 2}
    /\ users[1] = users[2]
    /\ attrs # <<>>

\* C22: cancel_merge_request(token) reports success for every caller and
\* every token, removes the request of that token, live or expired, whoever
\* created it, and touches nothing else; called for a token that has no
\* request it changes nothing, so a second call leaves what the first left
CancelIsIdempotent ==
    [][CallEnds("cancel_merge_request") =>
          LET k == result'.token
          IN /\ result'.ret.success
             /\ k \notin DOMAIN pending_merges'
             /\ \A j \in DOMAIN pending_merges \ {k} :
                   /\ j \in DOMAIN pending_merges'
                   /\ pending_merges'[j] = pending_merges[j]
             /\ DOMAIN pending_merges' \subseteq DOMAIN pending_merges
             /\ UNCHANGED <<authUsers, users, profiles, identities, attrs>>
             /\ k \notin DOMAIN pending_merges => UNCHANGED pending_merges
      ]_vars

\* both accounts had asked for a merge, ten minutes passed, and a cancel has
\* left one of the two expired requests
CancelIsIdempotentWitness ==
    /\ result.op = "cancel_merge_request"
    /\ result.ret.success
    /\ nextId.token = 3
    /\ now = TTL
    /\ \E k \in 1..HandshakeTokens :
          /\ DOMAIN pending_merges = {k}
          /\ pending_merges[k].created_at = 0

\* C24: what create_merge_request and get_merge_requester_info return holds
\* the outcome, the token, and the requester's display name and email, and
\* no account id
NoAccountIdHandedOut ==
    result.op \in {"create_merge_request", "get_merge_requester_info"}
        => DOMAIN result.ret \subseteq
               {"success", "error", "token", "requester_display_name",
                "requester_email"}

\* s is the beginning of t
IsPrefix(s, t) ==
    Len(s) <= Len(t) /\ \A n \in 1..Len(s) : s[n] = t[n]

\* a step in which a merge, called with a token or directly, returns success
MergeReturns ==
    /\ \/ CallReturns("execute_merge_with_token")
       \/ CallReturns("merge_profiles_internal")
    /\ result'.ret.success

\* C23: after a successful merge the target profile's merged_user_ids holds
\* the source's id exactly once; and in every step the merged_user_ids of a
\* profile that survives the step begins with what it was before
MergedIdsAppendOnly ==
    [][/\ MergeReturns =>
             LET l == profiles'[result'.ret.target_profile_id].merged_user_ids
             IN Cardinality({n \in 1..Len(l) :
                                l[n] = result'.ret.source_user_deleted}) = 1
       /\ \A q \in DOMAIN profiles \cap DOMAIN profiles' :
             IsPrefix(profiles[q].merged_user_ids,
                      profiles'[q].merged_user_ids)]_vars

\* C25: without the legacy merge_profiles, no two accounts share a profile
\* and every profile is referenced by exactly one account
AccountProfileOneToOne ==
    /\ \A u1, u2 \in DOMAIN users :
          (u1 # u2 /\ users[u1] # NoId) => users[u1] # users[u2]
    /\ \A q \in DOMAIN profiles :
          Cardinality({u \in DOMAIN users : users[u] = q}) = 1

\* C26: a consolidation run that has to ensure the account of a principal
\* completes: the write of the identity never ends in an error on the
\* public.users row
EnsureAccountNeverAborts ==
    (result.op \in {"identity_insert", "identity_update"}
        /\ ~result.ret.success)
        => result.ret.error # ErrUsersPkey

\* the rows of one (identity_id, attribute_key) pair, committed or written
\* by an open transaction
PairRows(i, k) ==
    {a \in DOMAIN attrs :
        attrs[a].identity_id = i /\ attrs[a].attribute_key = k}
    \cup UNION {{a \in DOMAIN sessions[t].tx.w.attrs :
                    /\ sessions[t].tx.w.attrs[a].identity_id = i
                    /\ sessions[t].tx.w.attrs[a].attribute_key = k} :
                t \in Connections}

\* C27: consolidation runs for one identity that overlap leave one row per
\* (identity_id, attribute_key): no run adds a second row for a pair, and a
\* pair whose claim has a value has its row
OneRowPerIdentityKey ==
    \A i \in 1..SyncIdentities, k \in AttributeKeys :
        /\ Cardinality(PairRows(i, k)) <= 1
        /\ (i \in DOMAIN identities
              /\ NonEmpty(ExtractClaims(identities[i].identity_data)[k]))
           => Cardinality(RowsOfIdentity(attrs, i, k)) = 1

\* the claims of an identity have been refreshed twice, the second refresh
\* has just committed while a run on the other connection is in progress,
\* and the identity has its rows
OneRowPerIdentityKeyWitness ==
    /\ result.op = "identity_update"
    /\ result.ret.success
    /\ reauths = SyncReauths
    /\ \E t \in Connections :
          sessions[t].op \in {"identity_insert", "identity_update"}
    /\ \E k \in AttributeKeys :
          RowsOfIdentity(attrs, result.identity, k) # {}

\* the errors execute_merge_with_token returns for a request that is gone
\* (NotFound), for accounts that share a profile (AlreadyMerged) and for an
\* account without a profile (NoProfile)
RacingMergeErrors ==
    {ErrInvalidToken, ErrSameProfile, ErrTargetNoProfile, ErrSourceNoProfile}

\* a merge execution of an account with the token of another account
IsCrossMerge(r) ==
    /\ r.op = "execute_merge_with_token"
    /\ r.caller # NoId
    /\ r.token # r.caller

\* every identity and every attribute row is with an account that exists
AllUnderSurvivors ==
    /\ DOMAIN users # {}
    /\ Cardinality(DOMAIN identities) = MergeRaceUsers
    /\ Cardinality(DOMAIN attrs) = 2 * MergeRaceUsers
    /\ \A i \in DOMAIN identities : identities[i].user_id \in DOMAIN users
    /\ \A a \in DOMAIN attrs :
          /\ attrs[a].identity_id \in DOMAIN identities
          /\ users[identities[attrs[a].identity_id].user_id]
                 = attrs[a].profile_id

\* C28: merges that race over the same accounts, each with its own live
\* token, leave the stored state whole (an account survives, and every
\* identity and attribute is under a surviving account's profile), and the
\* one that does not succeed fails with NotFound, AlreadyMerged or NoProfile
RacingMergesFailCleanly ==
    /\ Quiescent => AllUnderSurvivors
    /\ (IsCrossMerge(result) /\ ~result.ret.success)
           => result.ret.error \in RacingMergeErrors

\* the part of C28 about the stored state
RacingMergesKeepState == Quiescent => AllUnderSurvivors

\* C29: a refresh of an identity's claims changes nothing but attribute_value
\* in the rows that exist: a preferred row stays preferred, and a row that is
\* not preferred stays so while another row of its key is preferred
UpsertKeepsPreference ==
    [][CallReturns("identity_update") =>
          \A a \in DOMAIN attrs :
              /\ a \in DOMAIN attrs'
              /\ [attrs'[a] EXCEPT !.attribute_value = attrs[a].attribute_value,
                                   !.is_preferred = attrs[a].is_preferred]
                     = attrs[a]
              /\ attrs[a].is_preferred => attrs'[a].is_preferred
              /\ (/\ ~attrs[a].is_preferred
                  /\ PreferredRows(attrs, attrs[a].profile_id,
                                   attrs[a].attribute_key) # {})
                     => ~attrs'[a].is_preferred]_vars

\* a refresh has run for an account whose two rows of a key differ, one of
\* them preferred
UpsertKeepsPreferenceWitness ==
    /\ result.op = "identity_update"
    /\ result.ret.success
    /\ reauths = 1
    /\ \E a, b \in DOMAIN attrs :
          /\ attrs[a].profile_id = attrs[b].profile_id
          /\ attrs[a].attribute_key = attrs[b].attribute_key
          /\ attrs[a].is_preferred
          /\ ~attrs[b].is_preferred
          /\ attrs[a].attribute_value # attrs[b].attribute_value

\* the earliest-created row of a key under a profile, the lowest id among
\* rows of one created_at
EarliestRow(at, pid, k) ==
    CHOOSE a \in RowsOf(at, pid, k) :
        \A b \in RowsOf(at, pid, k) :
            \/ at[a].created_at < at[b].created_at
            \/ at[a].created_at = at[b].created_at /\ a <= b

\* C30: a consolidation run leaves the preferred rows of a key that had one
\* as they were, and for a key of its profile that had none and has rows it
\* marks one row, the earliest-created, the lowest id among equal created_at
BootstrapIsDeterministic ==
    [][ConsolidationStep =>
          LET pid == users'[identities'[result'.identity].user_id]
          IN \A k \in AttributeKeys :
                IF PreferredRows(attrs, pid, k) # {}
                THEN PreferredRows(attrs', pid, k)
                         = PreferredRows(attrs, pid, k)
                ELSE RowsOf(attrs', pid, k) # {} =>
                         PreferredRows(attrs', pid, k)
                             = {EarliestRow(attrs', pid, k)}]_vars

\* C31: after every step, a profile's display_name and primary_email equal
\* the value of the preferred row of that key under it when there is one,
\* and are what they were when there is none
AggregateFollowsPreferred ==
    [][\A q \in DOMAIN profiles', k \in {"display_name", "primary_email"} :
          IF PreferredRows(attrs', q, k) # {}
          THEN \A a \in PreferredRows(attrs', q, k) :
                   profiles'[q][k] = attrs'[a].attribute_value
          ELSE q \in DOMAIN profiles => profiles'[q][k] = profiles[q][k]]_vars

\* connection s runs DELETE FROM auth.users in this step
DeletesPrincipal(s) ==
    /\ sessions[s].tx.del.authUsers = {}
    /\ sessions'[s].tx.del.authUsers # {}

\* what the transaction of connection s has done of the merge: the source
\* has no identity and its profile no row left, the target's audit trail
\* ends with the source, and the source's profile and account are gone
CoreDataMoved(s) ==
    LET v == View(s)
        m == sessions[s]
    IN /\ \A i \in DOMAIN v.identities : v.identities[i].user_id # m.source
       /\ \A a \in DOMAIN v.attrs : v.attrs[a].profile_id # m.sp
       /\ m.tp \in DOMAIN v.profiles
       /\ Len(v.profiles[m.tp].merged_user_ids) > 0
       /\ v.profiles[m.tp].merged_user_ids[
              Len(v.profiles[m.tp].merged_user_ids)] = m.source
       /\ m.sp \notin DOMAIN v.profiles
       /\ m.source \notin DOMAIN v.users

\* C32: a merge deletes the source principal only after it has moved the
\* source's identities and attributes, appended the audit entry and deleted
\* the source's profile and account; it deletes no other principal, and a
\* merge that does not succeed deletes none
PrincipalDeletedLast ==
    [][/\ \A s \in Connections :
             DeletesPrincipal(s) =>
                 /\ CoreDataMoved(s)
                 /\ sessions'[s].tx.del.authUsers = {sessions[s].source}
                 /\ sessions'[s].pc = "returning"
       /\ authUsers' # authUsers =>
             /\ MergeSucceeds
             /\ authUsers' = authUsers \ {result'.caller}]_vars

\* a merge has deleted the principal that called it, and every identity is
\* with the principal that is left
PrincipalDeletedLastWitness ==
    /\ AfterMerge
    /\ result.caller \notin authUsers
    /\ result.caller \notin DOMAIN users
    /\ Cardinality(DOMAIN identities) = MergeRaceUsers
    /\ \A i \in DOMAIN identities : identities[i].user_id \in authUsers
    /\ profiles[result.ret.target_profile_id].merged_user_ids
           = <<result.caller>>

\* the token k had a row whose expires_at was still ahead at the time t
LiveAt(k, t) ==
    k \in DOMAIN pending_merges /\ pending_merges[k].expires_at > t

\* the request of the token k has been created: the sequence has passed k,
\* and no transaction that has not committed holds its row
Issued(k) ==
    /\ k < nextId.token
    /\ \A s \in Connections : k \notin DOMAIN sessions[s].tx.w.pending_merges

\* the token k has been issued and is not acceptable any more: its row is
\* gone (consumed, cancelled, superseded, or deleted with its requester) or
\* has reached its expires_at
IsSpent(k) == Issued(k) /\ ~IsLive(k)

\* a call of op returns in this step to an authenticated caller; it began
\* at the time t and presented the token k
TokenCall(op, k, t) ==
    /\ CallReturns(op)
    /\ result'.caller # NoId
    /\ result'.token = k
    /\ \E s \in Connections : Returns(s) /\ sessions[s].at = t

\* C33: a merge request only moves forward: a token that execute_merge_with_
\* token looked up is gone after the call, cancel_merge_request removes the
\* request it is given and create_merge_request the caller's earlier ones, a
\* spent token stays spent and both functions refuse it, and no row is ever
\* updated
RequestLifecycleForward ==
    [][\A k \in 1..HandshakeTokens :
          /\ IsSpent(k) =>
                (k \notin DOMAIN pending_merges'
                    \/ pending_merges'[k].expires_at <= now')
          /\ k \in DOMAIN pending_merges \cap DOMAIN pending_merges' =>
                pending_merges'[k] = pending_merges[k]
          /\ \A t \in 0..MaxTime :
                /\ (LiveAt(k, t)
                      /\ TokenCall("execute_merge_with_token", k, t))
                   => k \notin DOMAIN pending_merges'
                /\ (Issued(k) /\ ~LiveAt(k, t)
                      /\ TokenCall("execute_merge_with_token", k, t))
                   => result'.ret = Failure(ErrInvalidToken)
                /\ (Issued(k) /\ ~LiveAt(k, t)
                      /\ TokenCall("get_merge_requester_info", k, t))
                   => result'.ret = Failure(ErrInvalidToken)
          /\ (CallEnds("cancel_merge_request") /\ result'.token = k)
                => k \notin DOMAIN pending_merges'
          /\ (/\ k \in DOMAIN pending_merges
              /\ CallReturns("create_merge_request")
              /\ result'.ret.success
              /\ pending_merges[k].requester_id = result'.caller)
             => k \notin DOMAIN pending_merges']_vars

\* a token that was superseded or consumed has just been refused, while
\* another token is live
RequestLifecycleForwardWitness ==
    /\ result.op = "execute_merge_with_token"
    /\ result.ret = Failure(ErrInvalidToken)
    /\ \E k \in 1..HandshakeTokens :
          k < nextId.token /\ k \notin DOMAIN pending_merges
    /\ \E k \in 1..HandshakeTokens : IsLive(k)

\* C34: set_preferred_attribute for a username or avatar_url row leaves every
\* profile as it was, for any row it leaves the other profiles as they were,
\* and it never changes is_preferred of a row of another key or of another
\* profile
PreferenceFrame ==
    [][CallEnds("set_preferred_attribute") =>
          LET a == result'.attr
          IN /\ DOMAIN attrs' = DOMAIN attrs
             /\ DOMAIN profiles' = DOMAIN profiles
             /\ (a \in DOMAIN attrs
                   /\ attrs[a].attribute_key \in {"username", "avatar_url"})
                => profiles' = profiles
             /\ \A q \in DOMAIN profiles :
                   (a \notin DOMAIN attrs \/ q # attrs[a].profile_id)
                       => profiles'[q] = profiles[q]
             /\ \A b \in DOMAIN attrs :
                   (\/ a \notin DOMAIN attrs
                    \/ attrs[b].attribute_key # attrs[a].attribute_key
                    \/ attrs[b].profile_id # attrs[a].profile_id)
                       => attrs'[b] = attrs[b]]_vars

\* a username preference has just been switched to the later of two rows,
\* and another profile has rows
PreferenceFrameWitness ==
    /\ result.op = "set_preferred_attribute"
    /\ result.ret.success
    /\ \E a, b \in DOMAIN attrs :
          /\ a < b
          /\ attrs[a].profile_id = attrs[b].profile_id
          /\ attrs[a].attribute_key = "username"
          /\ attrs[b].attribute_key = "username"
          /\ attrs[b].is_preferred
          /\ profiles[attrs[b].profile_id].display_name # SqlNull
          /\ \E d \in DOMAIN attrs :
                /\ attrs[d].profile_id # attrs[a].profile_id
                /\ attrs[d].is_preferred

\* C35: get_merge_requester_info, whatever it answers, changes no table, so
\* the request a later execute_merge_with_token would find for any token is
\* the one it would have found before the lookup
RequesterInfoReadOnly ==
    [][CallEnds("get_merge_requester_info") =>
          /\ UNCHANGED <<Stored, nextId, now, reauths>>
          /\ \A j \in 1..HandshakeTokens :
                LiveRequester(pending_merges', j, now') =
                    LiveRequester(pending_merges, j, now)]_vars

\* a lookup has just answered with success, and the token it read is still
\* live for the other account to merge with
RequesterInfoReadOnlyWitness ==
    /\ result.op = "get_merge_requester_info"
    /\ result.ret.success
    /\ IsLive(result.token)
    /\ pending_merges[result.token].requester_id = result.ret.requester_id
    /\ result.caller \in authUsers \ {result.ret.requester_id}
    /\ users[result.caller] # NoId

\* C36: the requester of every request in pending_merges is an existing
\* principal with a public.users row, and a successful merge leaves no
\* request of the account it deleted
RequesterExists ==
    /\ [](\A k \in DOMAIN pending_merges :
             /\ pending_merges[k].requester_id \in authUsers
             /\ pending_merges[k].requester_id \in DOMAIN users)
    /\ [][MergeSucceeds =>
             /\ result'.caller \notin authUsers'
             /\ \A j \in DOMAIN pending_merges' :
                   pending_merges'[j].requester_id # result'.caller]_vars

\* a merge has just deleted an account, every token was issued, and a
\* request of an account that still exists is stored
RequesterExistsWitness ==
    /\ AfterMerge
    /\ nextId.token = ChainTokens + 1
    /\ Cardinality(authUsers) < ChainUsers
    /\ pending_merges # <<>>

\* C37: a successful merge deletes no identity and no attribute row and adds
\* none, and it reports as identities_moved the number of identities the
\* source account had and as attributes_merged the number of rows the source
\* profile had
MergeConservesData ==
    [][MergeSucceeds =>
          LET c == result'.caller
          IN /\ DOMAIN identities' = DOMAIN identities
             /\ DOMAIN attrs' = DOMAIN attrs
             /\ c \in DOMAIN users
             /\ result'.ret.identities_moved =
                    Cardinality({i \in DOMAIN identities :
                                    identities[i].user_id = c})
             /\ result'.ret.attributes_merged =
                    Cardinality({a \in DOMAIN attrs :
                                    attrs[a].profile_id = users[c]})]_vars

\* a merge has just moved one identity and its two rows next to the rows the
\* target had, and all of them are stored
MergeConservesDataWitness ==
    /\ AfterMerge
    /\ result.ret.identities_moved = 1
    /\ result.ret.attributes_merged = 2
    /\ Cardinality(DOMAIN identities) = 2
    /\ Cardinality(DOMAIN attrs) >= 3
    /\ \A a \in DOMAIN attrs :
          attrs[a].profile_id = result.ret.target_profile_id

\* C38: calls of execute_merge_with_token that race with the one token there
\* is perform at most one merge between them: of the TokenRaceUsers accounts
\* at most one is ever absorbed
SameTokenMergesOnce ==
    Cardinality(authUsers) >= TokenRaceUsers - 1

\* C39: consolidation runs that race for identities of one account whose
\* profile_id is NULL create one profile between them: every profile is the
\* profile of an account, and the rows of every identity are under the
\* profile of the identity's account
RacingRunsCreateOneProfile ==
    /\ \A p \in DOMAIN profiles : \E u \in DOMAIN users : users[u] = p
    /\ \A a \in DOMAIN attrs :
          attrs[a].identity_id \in DOMAIN identities =>
              LET u == identities[attrs[a].identity_id].user_id
              IN u \in DOMAIN users /\ attrs[a].profile_id = users[u]

\* C40: every account that has ever been absorbed by a merge is listed in
\* merged_user_ids of a profile that exists (in SpecChain an account whose
\* principal is gone has been absorbed: nothing else deletes one)
AuditTrailComplete ==
    \A u \in (1..(nextId.user - 1)) \ authUsers :
        \E p \in DOMAIN profiles :
            \E n \in DOMAIN profiles[p].merged_user_ids :
                profiles[p].merged_user_ids[n] = u

====
